---- MODULE Spec2Model ----
(***************************************************************************)
(* EncryptedPouch: an encrypting document layer over a replicated store.   *)
(* The model follows src/src/index.ts (class EncryptedPouch) and           *)
(* src/src/encryption.ts (class EncryptionHelper).                         *)
(*                                                                         *)
(* Strings that the code takes apart (identifiers, field names) are        *)
(* sequences of tokens; the token "_" is the separator character.          *)
(* Optional values are sequences of length 0 (null/undefined) or 1.        *)
(***************************************************************************)
EXTENDS Integers, Sequences, FiniteSets, TLC

VARIABLES
    store,            \* db: full identifier -> set of leaf revisions (records)
    listener,         \* the PouchListener given to the constructor
    changesHandler,   \* this.changesHandler: <<>> or <<subscription id>>
    subs,             \* subscriptions of the store's change feed that are not cancelled
    nextSub,          \* number of subscriptions opened so far
    chain,            \* one entry per promise appended to this.processingChain
    processingChain,  \* this.processingChain: index into chain, 0 = Promise.resolve()
    load,             \* the loadAll invocation in flight, or the last one finished
    notes,            \* every listener callback invocation so far, in order
    lastPut,          \* the put that completed last, until the store changes again
    used,             \* how many calls of each kind were made
    limit,            \* how many of each a behaviour may make
    lastRead,         \* the get or getAll that completed last
    sync,             \* the sync coordinator: its fields, the handles it opened
                      \* and the calls that wait on them
    cipher            \* an EncryptionHelper used on its own: its fields and the
                      \* encrypt and decrypt calls made on it

vars == <<store, listener, changesHandler, subs, nextSub, chain, processingChain,
          load, notes, lastPut, used, limit, lastRead, sync, cipher>>

----------------------------------------------------------------------------
(* Bounds of the model *)

MaxPut == 2
MaxForeign == 1
MaxLoad == 1
LoadMaxPut == 1
LoadMaxForeign == 2
NumIVs == 1
OpsMaxPut == 1
OpsMaxForeign == 1
OpsMaxDelete == 1
ReadMaxPut == 2
ReadMaxForeign == 1
ReadMaxDelete == 1
ReadMaxRead == 1
SysMaxPut == 1
SysMaxForeign == 1
SysMaxDelete == 1
SysMaxRead == 1
ConflictMaxRead == 2
ScanMaxRead == 1
ConflictMaxResolve == 1
SyncMaxCall == 3
SyncMaxEvent == 1
WaitMaxCall == 2
WaitMaxEvent == 3
\* calls of encrypt and decrypt on one EncryptionHelper
CipherMaxCall == 2
\* tokens of an id given to parseFullId
MaxIdLen == 3

----------------------------------------------------------------------------
(* Strings, identifiers, field names *)

None == <<>>
Some(x) == <<x>>

KId == <<"_", "id">>
KRev == <<"_", "rev">>
KDeleted == <<"_", "deleted">>
KConflicts == <<"_", "conflicts">>
KD == <<"d">>
KAmount == <<"amount">>

\* key.startsWith("_")
StartsWithUnderscore(key) == Len(key) > 0 /\ key[1] = "_"

\* id.startsWith("_design/")
StartsWithDesign(id) == Len(id) >= 2 /\ id[1] = "_" /\ id[2] = "design/"

\* String.prototype.indexOf, 1-based; 0 stands for -1
IndexOf(s, c) ==
    IF \E i \in 1..Len(s) : s[i] = c
    THEN CHOOSE i \in 1..Len(s) : s[i] = c /\ \A j \in 1..(i - 1) : s[j] # c
    ELSE 0

\* `${table}_${id}`
FullId(table, id) == table \o <<"_">> \o id

\* String.prototype.lastIndexOf, 1-based; 0 stands for -1
LastIndexOf(s, c) ==
    IF \E i \in 1..Len(s) : s[i] = c
    THEN CHOOSE i \in 1..Len(s) : s[i] = c /\ \A j \in (i + 1)..Len(s) : s[j] # c
    ELSE 0

\* the table is what precedes the last separator
parseFullIdLast(fullId) ==
    LET idx == LastIndexOf(fullId, "_")
    IN  IF idx = 0 THEN None
        ELSE Some([table |-> SubSeq(fullId, 1, idx - 1),
                   id |-> SubSeq(fullId, idx + 1, Len(fullId))])

parseFullId(fullId) ==
    LET idx == IndexOf(fullId, "_")
    IN  IF idx = 0 THEN None
        ELSE Some([table |-> SubSeq(fullId, 1, idx - 1),
                   id |-> SubSeq(fullId, idx + 1, Len(fullId))])

\* { ...f, ...g }
Spread(f, g) ==
    [k \in DOMAIN f \cup DOMAIN g |-> IF k \in DOMAIN g THEN g[k] ELSE f[k]]

Restrict(f, S) == [k \in S |-> f[k]]

----------------------------------------------------------------------------
(* EncryptionHelper.  A key is the passphrase it was derived from; a        *)
(* ciphertext string hex(iv)|hex(AES-GCM(key, iv, plaintext)) is the record *)
(* of its three parts; a string that is no such thing is garbage.           *)

Passphrase == "p1"
OtherPassphrase == "p2"
IVs == 1..NumIVs

encrypt(key, iv, data) == [kind |-> "cipher", iv |-> iv, key |-> key, pt |-> data]

Garbage == [kind |-> "garbage"]

\* decrypt: <<plaintext>>, or <<>> for a DecryptionError
decrypt(key, data) ==
    IF data.kind = "cipher" /\ data.key = key THEN Some(data.pt) ELSE None

----------------------------------------------------------------------------
(* JSON.stringify / JSON.parse of the user-data object.  Values are the     *)
(* strings "15", "y" (kept), "NaN" (written as null), "undefined" (the key  *)
(* is dropped).                                                             *)

JSONValue(v) == IF v = "NaN" THEN "null" ELSE v

JSONStringify(data) ==
    [k \in {k \in DOMAIN data : data[k] # "undefined"} |-> JSONValue(data[k])]

JSONParse(text) == text

----------------------------------------------------------------------------
(* encryptDoc / decryptDoc *)

\* the partition lost: every field is copied to the root as well
encryptDocAllRoot(doc, fullId, key, iv) ==
    LET keys == DOMAIN doc \ {KId, KRev}
        data == Restrict(doc, {k \in keys : ~StartsWithUnderscore(k)})
        rootFields == Spread((KId :> fullId), Restrict(doc, keys))
    IN  Spread(rootFields, (KD :> encrypt(key, iv, JSONStringify(data))))

encryptDoc(doc, fullId, key, iv) ==
    LET keys == DOMAIN doc \ {KId, KRev}
        rootKeys == {k \in keys : StartsWithUnderscore(k)}
        data == Restrict(doc, keys \ rootKeys)
        rootFields == Spread((KId :> fullId), Restrict(doc, rootKeys))
    IN  Spread(rootFields, (KD :> encrypt(key, iv, JSONStringify(data))))

\* the namespaced identifier of the store left in _id
decryptDocFullId(encryptedDoc, key) ==
    LET parsed == parseFullId(encryptedDoc[KId])
        plain == IF KD \in DOMAIN encryptedDoc
                 THEN decrypt(key, encryptedDoc[KD]) ELSE None
    IN  IF parsed = None \/ plain = None THEN None
        ELSE Some(Spread((KId :> encryptedDoc[KId]) @@ (KRev :> encryptedDoc[KRev]),
                         JSONParse(plain[1])))

\* <<doc>>, or <<>> when it throws (invalid id format, DecryptionError)
decryptDoc(encryptedDoc, key) ==
    LET parsed == parseFullId(encryptedDoc[KId])
        plain == IF KD \in DOMAIN encryptedDoc
                 THEN decrypt(key, encryptedDoc[KD]) ELSE None
    IN  IF parsed = None \/ plain = None THEN None
        ELSE Some(Spread((KId :> parsed[1].id) @@ (KRev :> encryptedDoc[KRev]),
                         JSONParse(plain[1])))

\* the message of what decryptDoc throws
decryptDocError(encryptedDoc) ==
    IF parseFullId(encryptedDoc[KId]) = None THEN "Invalid ID format"
    ELSE "DecryptionError"

----------------------------------------------------------------------------
(* The document store (PouchDB), as far as this layer uses it.  A record is *)
(* the set of its leaf revisions; a leaf is the stored object, a function   *)
(* from field names to values; a revision token is <<generation, branch>>.  *)

IdT == <<"t", "_", "x">>
IdTU == <<"t", "_", "u", "_", "x">>
IdU == <<"u", "_", "x">>
IdDesign == <<"_", "design/", "v">>
IdNoSep == <<"x">>

\* every identifier of the model, in the order allDocs lists them
AllIds == <<IdDesign, IdTU, IdT, IdU, IdNoSep>>
IdSet == {AllIds[i] : i \in DOMAIN AllIds}

ForeignTags == {0, 2}

IsDeleted(leaf) == KDeleted \in DOMAIN leaf /\ leaf[KDeleted] = "true"

RevLess(a, b) == a[1] < b[1] \/ (a[1] = b[1] /\ a[2] < b[2])

MaxRev(leaves) == CHOOSE l \in leaves : \A m \in leaves : m = l \/ RevLess(m[KRev], l[KRev])

\* the winning revision: the highest live leaf, else the highest deleted one
Winner(leaves) ==
    LET live == {l \in leaves : ~IsDeleted(l)}
    IN  IF live # {} THEN MaxRev(live) ELSE MaxRev(leaves)

RECURSIVE RevsDescending(_)
RevsDescending(leaves) ==
    IF leaves = {} THEN <<>>
    ELSE LET l == MaxRev(leaves)
         IN  <<l[KRev]>> \o RevsDescending(leaves \ {l})

\* _conflicts: the live leaves that did not win
ConflictRevs(leaves) ==
    RevsDescending({l \in leaves : ~IsDeleted(l) /\ l # Winner(leaves)})

Exists(st, id) == st[id] # {} /\ ~IsDeleted(Winner(st[id]))

\* the winning leaf, with _conflicts when there are any ({conflicts: true})
WithConflicts(leaves) ==
    LET c == ConflictRevs(leaves)
    IN  IF c = <<>> THEN Winner(leaves) ELSE Spread(Winner(leaves), (KConflicts :> c))

\* db.get(id, {conflicts: true}): <<doc>>, or <<>> for not_found
dbGet(st, id) == IF Exists(st, id) THEN Some(WithConflicts(st[id])) ELSE None

\* db.get(id, {rev}): <<doc>>, or <<>> when the store has no such revision
dbGetRev(st, id, rev) ==
    LET hit == {l \in st[id] : l[KRev] = rev}
    IN  IF hit = {} THEN None ELSE Some(CHOOSE l \in hit : TRUE)

\* allDocs({include_docs: true, conflicts: true}).rows
allDocs(st) ==
    LET present == SelectSeq(AllIds, LAMBDA id : Exists(st, id))
    IN  [i \in DOMAIN present |-> [id |-> present[i], doc |-> WithConflicts(st[present[i]])]]

\* db.put(doc): the new revision and the record after it, or a conflict error
dbPut(leaves, doc) ==
    LET live == {l \in leaves : ~IsDeleted(l)}
        base == IF KRev \in DOMAIN doc
                THEN {l \in leaves : l[KRev] = doc[KRev]}
                ELSE IF live = {} /\ leaves # {} THEN {Winner(leaves)} ELSE {}
        parent == CHOOSE l \in base : TRUE
        rev == IF base = {} THEN <<1, 1>> ELSE <<parent[KRev][1] + 1, parent[KRev][2]>>
        ok == IF KRev \in DOMAIN doc THEN base # {} ELSE live = {}
    IN  IF ok
        THEN [ok |-> TRUE, rev |-> rev,
              leaves |-> (leaves \ base) \cup {Spread(doc, (KRev :> rev))}]
        ELSE [ok |-> FALSE, rev |-> <<0, 0>>, leaves |-> leaves]

\* db.remove(doc): db.put of the tombstone of doc's revision
dbRemove(leaves, doc) ==
    dbPut(leaves, (KId :> doc[KId]) @@ (KRev :> doc[KRev]) @@ (KDeleted :> "true"))

\* one event of the live change feed ({include_docs: true, conflicts: true})
ChangeOf(st, id) ==
    [id |-> id, deleted |-> IsDeleted(Winner(st[id])), doc |-> WithConflicts(st[id])]

----------------------------------------------------------------------------
(* The listener.  A callback that is registered may throw when it is called; *)
(* which ones do is fixed with the listener.                                 *)

Listeners ==
    {[onError |-> TRUE, onConflict |-> TRUE, onSync |-> TRUE, throws |-> t] :
        t \in {{}, {"onError"}}}
    \cup {[onError |-> FALSE, onConflict |-> FALSE, onSync |-> FALSE, throws |-> {}]}

Throws(cb) == cb \in listener.throws

\* one callback invocation: which callback, on whose behalf, its argument
Note(cb, src, arg) == [cb |-> cb, src |-> src, arg |-> arg]

\* a DecryptionErrorEvent; `at` is the "@rev" suffix of docId, when it has one
ErrEv(docId, at, error, rawDoc) ==
    [docId |-> docId, at |-> at, error |-> error, rawDoc |-> rawDoc]

ListenerError == "listener threw"

----------------------------------------------------------------------------
(* buildConflictInfo *)

\* the loop over conflictRevs: losers and errors, in order
RECURSIVE fetchLosers(_, _, _, _)
fetchLosers(st, fullId, revs, acc) ==
    IF revs = <<>> THEN acc
    ELSE LET rev == Head(revs)
             conflictDoc == dbGetRev(st, fullId, rev)
             decrypted == IF conflictDoc = None THEN None
                          ELSE decryptDoc(conflictDoc[1], Passphrase)
             error == IF conflictDoc = None THEN "missing"
                      ELSE decryptDocError(conflictDoc[1])
             next == IF decrypted # None
                     THEN [acc EXCEPT !.losers = Append(@, decrypted[1])]
                     ELSE [acc EXCEPT !.errors = Append(@,
                               ErrEv(fullId, Some(rev), error,
                                     (KId :> fullId) @@ (KRev :> rev)))]
         IN  fetchLosers(st, fullId, Tail(revs), next)

\* threw: the call failed; notes: the callbacks it invoked; info: its result
buildConflictInfo(st, fullId, currentRev, conflictRevs, winnerDoc, src) ==
    LET parsed == parseFullId(fullId)
        got == fetchLosers(st, fullId, conflictRevs, [losers |-> <<>>, errors |-> <<>>])
        called == IF Len(got.errors) > 0 /\ listener.onError
                  THEN <<Note("onError", src, got.errors)>> ELSE <<>>
    IN  IF parsed = None
        THEN [threw |-> TRUE, notes |-> <<>>, info |-> <<>>]
        ELSE [threw |-> called # <<>> /\ Throws("onError"),
              notes |-> called,
              info |-> [docId |-> fullId, table |-> parsed[1].table, id |-> parsed[1].id,
                        currentRev |-> currentRev, conflictRevs |-> conflictRevs,
                        winner |-> winnerDoc, losers |-> got.losers]]

HasConflicts(encryptedDoc) ==
    KConflicts \in DOMAIN encryptedDoc /\ Len(encryptedDoc[KConflicts]) > 0

----------------------------------------------------------------------------
(* setupSubscription and the serialization tail.  chain[k] is the promise    *)
(* made for the k-th change event: the change, the promise it was chained    *)
(* on, its state, where its handler is suspended, how handleChange ended,    *)
(* and (of) the write that the store announced with it.                      *)

\* the callback chained on a fresh Promise.resolve() instead of on the tail
appendChangeUnchained(ch, tail, change, of) ==
    Append(ch, [change |-> change, after |-> 0, st |-> "pending", pc |-> "", out |-> "",
                of |-> of])

\* this.processingChain = this.processingChain.then(() => this.handleChange(change))...
appendChange(ch, tail, change, of) ==
    Append(ch, [change |-> change, after |-> tail, st |-> "pending", pc |-> "", out |-> "",
                of |-> of])

\* the change callback of every live subscription runs, in subscription order
RECURSIVE emit(_, _, _, _, _)
emit(ch, tail, n, change, of) ==
    IF n = 0 THEN ch
    ELSE emit(appendChange(ch, tail, change, of), Len(ch) + 1, n - 1, change, of)

\* .catch without a handler that swallows: the rejection stays
chainCatchRethrow(outcome) == outcome

\* .catch((err) => console.error(...)): the promise is fulfilled either way
chainCatch(outcome) == "fulfilled"

Settled(k) == IF k = 0 THEN TRUE ELSE chain[k].st \in {"fulfilled", "rejected"}

Rejected(k) == IF k = 0 THEN FALSE ELSE chain[k].st = "rejected"

----------------------------------------------------------------------------
(* handleChange.  It runs to its first await in one step (handleChangeStart) *)
(* and from the decryption on in a second one (handleChangeRest); with       *)
(* competing revisions the second step waits for buildConflictInfo, whose    *)
(* reads of the store are taken together.                                    *)

\* system records are handled as every other record is
handleChangeStartNoSkip(change, src) ==
    LET parsed == parseFullId(change.id)
        called == IF parsed # None
                  THEN <<Note("onDelete", src,
                              <<[table |-> parsed[1].table,
                                 docs |-> <<(KId :> parsed[1].id)>>]>>)>>
                  ELSE <<>>
    IN  IF change.deleted \/ KD \notin DOMAIN change.doc
        THEN [done |-> TRUE, notes |-> called,
              threw |-> called # <<>> /\ Throws("onDelete")]
        ELSE [done |-> FALSE, notes |-> <<>>, threw |-> FALSE]

\* the test for a payload inverted: a record with a payload is taken for a
\* deletion
handleChangeStartInverted(change, src) ==
    LET parsed == parseFullId(change.id)
        called == IF parsed # None
                  THEN <<Note("onDelete", src,
                              <<[table |-> parsed[1].table,
                                 docs |-> <<(KId :> parsed[1].id)>>]>>)>>
                  ELSE <<>>
    IN  IF StartsWithDesign(change.id)
        THEN [done |-> TRUE, notes |-> <<>>, threw |-> FALSE]
        ELSE IF change.deleted \/ KD \in DOMAIN change.doc
        THEN [done |-> TRUE, notes |-> called,
              threw |-> called # <<>> /\ Throws("onDelete")]
        ELSE [done |-> FALSE, notes |-> <<>>, threw |-> FALSE]

\* until the first await: done (with the callbacks invoked and whether it
\* threw), or suspended in decryptDoc
handleChangeStart(change, src) ==
    LET parsed == parseFullId(change.id)
        called == IF parsed # None
                  THEN <<Note("onDelete", src,
                              <<[table |-> parsed[1].table,
                                 docs |-> <<(KId :> parsed[1].id)>>]>>)>>
                  ELSE <<>>
    IN  IF StartsWithDesign(change.id)
        THEN [done |-> TRUE, notes |-> <<>>, threw |-> FALSE]
        ELSE IF change.deleted \/ KD \notin DOMAIN change.doc
        THEN [done |-> TRUE, notes |-> called,
              threw |-> called # <<>> /\ Throws("onDelete")]
        ELSE [done |-> FALSE, notes |-> <<>>, threw |-> FALSE]

\* a failure of decryptDoc is dropped: nothing is collected for it
handleChangeTrySilent(encryptedDoc, doc, bci, src) ==
    IF doc = None
    THEN [notes |-> <<>>, errors |-> <<>>, conflicts |-> <<>>]
    ELSE [notes |-> <<Note("onChange", src,
                           <<[table |-> parseFullId(encryptedDoc[KId])[1].table,
                              docs |-> <<doc[1]>>]>>)>>,
          errors |-> <<>>, conflicts |-> <<>>]

\* the try block, from the result `doc` of decryptDoc on, `bci` being what
\* buildConflictInfo gives: the callbacks invoked, and the errors and
\* conflicts collected
handleChangeTry(encryptedDoc, doc, bci, src) ==
    LET parsed == parseFullId(encryptedDoc[KId])
        caught(error) == <<ErrEv(encryptedDoc[KId], None, error, encryptedDoc)>>
    IN  IF doc = None
        THEN [notes |-> <<>>, errors |-> caught(decryptDocError(encryptedDoc)),
              conflicts |-> <<>>]
        ELSE IF ~HasConflicts(encryptedDoc)
        THEN [notes |-> <<Note("onChange", src,
                               <<[table |-> parsed[1].table, docs |-> <<doc[1]>>]>>)>>,
              errors |-> IF Throws("onChange") THEN caught(ListenerError) ELSE <<>>,
              conflicts |-> <<>>]
        ELSE IF bci.threw
        THEN [notes |-> bci.notes, errors |-> caught(ListenerError), conflicts |-> <<>>]
        ELSE [notes |-> Append(bci.notes,
                               Note("onChange", src,
                                    <<[table |-> parsed[1].table, docs |-> <<doc[1]>>]>>)),
              errors |-> IF Throws("onChange") THEN caught(ListenerError) ELSE <<>>,
              conflicts |-> <<bci.info>>]

\* onConflict is called before the other callbacks of the event
handleChangeDispatchConflictFirst(try, src) ==
    LET n1 == IF Len(try.errors) > 0 /\ listener.onError
              THEN <<Note("onError", src, try.errors)>> ELSE <<>>
        threw1 == Len(try.errors) > 0 /\ listener.onError /\ Throws("onError")
        n2 == IF ~threw1 /\ Len(try.conflicts) > 0 /\ listener.onConflict
              THEN <<Note("onConflict", src, try.conflicts)>> ELSE <<>>
        threw2 == /\ ~threw1 /\ Len(try.conflicts) > 0 /\ listener.onConflict
                  /\ Throws("onConflict")
    IN  [notes |-> n2 \o try.notes \o n1, threw |-> threw1 \/ threw2]

\* after the try block: onError, then onConflict
handleChangeDispatch(try, src) ==
    LET n1 == IF Len(try.errors) > 0 /\ listener.onError
              THEN <<Note("onError", src, try.errors)>> ELSE <<>>
        threw1 == Len(try.errors) > 0 /\ listener.onError /\ Throws("onError")
        n2 == IF ~threw1 /\ Len(try.conflicts) > 0 /\ listener.onConflict
              THEN <<Note("onConflict", src, try.conflicts)>> ELSE <<>>
        threw2 == /\ ~threw1 /\ Len(try.conflicts) > 0 /\ listener.onConflict
                  /\ Throws("onConflict")
    IN  [notes |-> try.notes \o n1 \o n2, threw |-> threw1 \/ threw2]

\* from the result of decryptDoc to the end
handleChangeRest(change, st, src) ==
    handleChangeDispatch(
        handleChangeTry(change.doc, decryptDoc(change.doc, Passphrase),
                        buildConflictInfo(st, change.doc[KId], change.doc[KRev],
                                          change.doc[KConflicts],
                                          decryptDoc(change.doc, Passphrase)[1], src),
                        src),
        src)

Outcome(threw) == IF threw THEN "rejected" ELSE "fulfilled"

Live(k) == <<"live", k>>

\* the promise chain[k] was chained on has settled: its .then callback runs
\* handleChange, or is skipped when that promise was rejected
HandleStart(k) ==
    /\ chain[k].st = "pending"
    /\ Settled(chain[k].after)
    /\ LET r == handleChangeStart(chain[k].change, Live(k))
       IN  IF Rejected(chain[k].after)
           THEN /\ chain' = [chain EXCEPT ![k].st = chainCatch("rejected")]
                /\ notes' = notes
           ELSE IF r.done
           THEN /\ chain' = [chain EXCEPT ![k].st = chainCatch(Outcome(r.threw)),
                                          ![k].out = Outcome(r.threw)]
                /\ notes' = notes \o r.notes
           ELSE /\ chain' = [chain EXCEPT ![k].st = "running", ![k].pc = "decrypt"]
                /\ notes' = notes
    /\ UNCHANGED <<store, listener, changesHandler, subs, nextSub, processingChain,
                   load, lastPut, used, limit, lastRead, sync, cipher>>

\* decryptDoc has settled
HandleDecrypted(k) ==
    /\ chain[k].st = "running"
    /\ chain[k].pc = "decrypt"
    /\ LET c == chain[k].change
           r == handleChangeRest(c, store, Live(k))
       IN  IF decryptDoc(c.doc, Passphrase) # None /\ HasConflicts(c.doc)
           THEN /\ chain' = [chain EXCEPT ![k].pc = "conflict"]
                /\ notes' = notes
           ELSE /\ chain' = [chain EXCEPT ![k].st = chainCatch(Outcome(r.threw)),
                                          ![k].pc = "", ![k].out = Outcome(r.threw)]
                /\ notes' = notes \o r.notes
    /\ UNCHANGED <<store, listener, changesHandler, subs, nextSub, processingChain,
                   load, lastPut, used, limit, lastRead, sync, cipher>>

\* buildConflictInfo has settled
HandleConflicts(k) ==
    /\ chain[k].st = "running"
    /\ chain[k].pc = "conflict"
    /\ LET r == handleChangeRest(chain[k].change, store, Live(k))
       IN  /\ chain' = [chain EXCEPT ![k].st = chainCatch(Outcome(r.threw)),
                                     ![k].pc = "", ![k].out = Outcome(r.threw)]
           /\ notes' = notes \o r.notes
    /\ UNCHANGED <<store, listener, changesHandler, subs, nextSub, processingChain,
                   load, lastPut, used, limit, lastRead, sync, cipher>>

----------------------------------------------------------------------------
(* put, and writes that reach the store from elsewhere (replication, another *)
(* client): a new record or a competing revision of one, readable with this  *)
(* passphrase, written under another passphrase, or not a ciphertext.        *)

Tables == {<<"t">>, <<"t", "_", "u">>}

PutDocs ==
    {(KId :> <<"x">>) @@ (KAmount :> "15"),
     (KId :> <<"x">>) @@ (KAmount :> "NaN"),
     (KId :> <<"x">>) @@ (KAmount :> "15") @@ (KDeleted :> "true")}

\* the foreign writes: the record as it arrives, and the branch of its revision
ForeignWrites ==
    {[doc |-> encryptDoc((KAmount :> "15"), IdT, k, 1), tag |-> t] :
        k \in {Passphrase, OtherPassphrase}, t \in ForeignTags}
    \cup {[doc |-> encryptDoc((KAmount :> "15"), IdU, Passphrase, 1), tag |-> 0],
          [doc |-> (KId :> IdU) @@ (KD :> Garbage), tag |-> 0],
          [doc |-> (KId :> IdDesign), tag |-> 0]}

\* the revision a foreign write arrives with: a first revision that loses to
\* a local one, or a later revision that wins over the local ones
ForeignRev(tag) == IF tag = 0 THEN <<1, tag>> ELSE <<3, tag>>

\* revision tokens a caller of put may still hold
StaleRevs == {<<1, 1>>}

\* a store write to `id` is announced to every live subscription
Announce(st, id, of) ==
    /\ chain' = emit(chain, processingChain, Cardinality(subs), ChangeOf(st, id),
                     [of EXCEPT !.subs = Cardinality(subs)]
                         @@ [handle |-> changesHandler])
    /\ processingChain' = IF subs = {} THEN processingChain ELSE Len(chain')

\* what put returns: { ...doc, _id: doc._id, _rev: result.rev }
putResult(doc, rev) == Spread(doc, (KId :> doc[KId]) @@ (KRev :> rev))

\* the error of db.put is caught and the document returned as it was given
putReturnSwallow(doc, result) == [ok |-> TRUE, error |-> None, ret |-> doc]

\* how put settles: it returns its document with the new revision, or
\* rejects with the error of db.put
putReturn(doc, result) ==
    IF result.ok
    THEN [ok |-> TRUE, error |-> None, ret |-> putResult(doc, result.rev)]
    ELSE [ok |-> FALSE, error |-> Some("conflict"), ret |-> doc]

Put(table, d, rev, iv) ==
    /\ used.put < limit.put
    /\ LET doc == IF rev = None THEN d ELSE Spread(d, (KRev :> rev[1]))
           fullId == FullId(table, doc[KId])
           encryptedDoc == encryptDoc(doc, fullId, Passphrase, iv)
           toStore == IF KRev \in DOMAIN doc
                      THEN Spread(encryptedDoc, (KRev :> doc[KRev]))
                      ELSE encryptedDoc
           result == dbPut(store[fullId], toStore)
       IN  /\ fullId \in IdSet
           /\ IF result.ok
              THEN /\ store' = [store EXCEPT ![fullId] = result.leaves]
                   /\ Announce(store', fullId,
                               [put |-> TRUE, table |-> table, doc |-> doc,
                                rev |-> result.rev, subs |-> 0])
              ELSE UNCHANGED <<store, chain, processingChain>>
           /\ lastPut' = Some([table |-> table, doc |-> doc, sent |-> toStore,
                               before |-> store[fullId],
                               ok |-> putReturn(doc, result).ok,
                               error |-> putReturn(doc, result).error,
                               ret |-> putReturn(doc, result).ret])
    /\ used' = [used EXCEPT !.put = @ + 1]
    /\ UNCHANGED <<listener, changesHandler, subs, nextSub, load, notes, limit,
                   lastRead, sync, cipher>>

ForeignWrite(w) ==
    /\ used.foreign < limit.foreign
    /\ \A l \in store[w.doc[KId]] : l[KRev][2] # w.tag
    /\ store' = [store EXCEPT ![w.doc[KId]] =
                    @ \cup {Spread(w.doc, (KRev :> ForeignRev(w.tag)))}]
    /\ Announce(store', w.doc[KId],
                [put |-> FALSE, table |-> <<>>, doc |-> w.doc, rev |-> ForeignRev(w.tag),
                 subs |-> 0])
    /\ lastPut' = None
    /\ used' = [used EXCEPT !.foreign = @ + 1]
    /\ UNCHANGED <<listener, changesHandler, subs, nextSub, load, notes, limit, lastRead, sync, cipher>>

\* further foreign writes: a record without a payload, and records whose
\* identifier has no separator, with and without a payload
OddWrites ==
    {[doc |-> (KId :> IdT), tag |-> 0],
     [doc |-> (KId :> IdNoSep), tag |-> 0],
     [doc |-> encryptDoc((KAmount :> "15"), IdNoSep, Passphrase, 1), tag |-> 0]}

\* foreign writes of a system record: as a design document is, without a
\* payload field, and with one
SysWrites ==
    {[doc |-> (KId :> IdDesign), tag |-> 0],
     [doc |-> (KId :> IdDesign) @@ (KD :> Garbage), tag |-> 2]}

\* delete(table, id): db.get, then db.remove of what it gave; a failure of
\* either is logged
Delete(table, id) ==
    /\ used.delete < limit.delete
    /\ LET fullId == FullId(table, id)
           doc == dbGet(store, fullId)
           result == dbRemove(store[fullId], doc[1])
       IN  /\ fullId \in IdSet
           /\ IF doc # None /\ result.ok
              THEN /\ store' = [store EXCEPT ![fullId] = result.leaves]
                   /\ Announce(store', fullId,
                               [put |-> FALSE, table |-> table, doc |-> doc[1],
                                rev |-> result.rev, subs |-> 0])
              ELSE UNCHANGED <<store, chain, processingChain>>
    /\ lastPut' = None
    /\ used' = [used EXCEPT !.delete = @ + 1]
    /\ UNCHANGED <<listener, changesHandler, subs, nextSub, load, notes, limit,
                   lastRead, sync, cipher>>

----------------------------------------------------------------------------
(* resolveConflict *)

\* the first db.remove that fails ends the loop and is thrown
RECURSIVE removeConflictsAbort(_, _, _)
removeConflictsAbort(acc, fullId, revs) ==
    IF revs = <<>> \/ acc.threw THEN acc
    ELSE LET result == dbRemove(acc.st[fullId], (KId :> fullId) @@ (KRev :> Head(revs)))
             next == [st |-> IF result.ok
                             THEN [acc.st EXCEPT ![fullId] = result.leaves] ELSE acc.st,
                      attempts |-> Append(acc.attempts,
                                          [rev |-> Head(revs), ok |-> result.ok]),
                      writes |-> IF result.ok
                                 THEN Append(acc.writes,
                                             [acc.st EXCEPT ![fullId] = result.leaves])
                                 ELSE acc.writes,
                      threw |-> ~result.ok]
         IN  removeConflictsAbort(next, fullId, Tail(revs))

\* the loop over doc._conflicts: db.remove(fullId, rev), a failure logged.
\* st: the store; attempts: the revisions tried and how each went; writes: the
\* store after every write; threw: the loop was left by an exception
RECURSIVE removeConflicts(_, _, _)
removeConflicts(acc, fullId, revs) ==
    IF revs = <<>> THEN acc
    ELSE LET result == dbRemove(acc.st[fullId], (KId :> fullId) @@ (KRev :> Head(revs)))
             next == [st |-> IF result.ok
                             THEN [acc.st EXCEPT ![fullId] = result.leaves] ELSE acc.st,
                      attempts |-> Append(acc.attempts,
                                          [rev |-> Head(revs), ok |-> result.ok]),
                      writes |-> IF result.ok
                                 THEN Append(acc.writes,
                                             [acc.st EXCEPT ![fullId] = result.leaves])
                                 ELSE acc.writes,
                      threw |-> FALSE]
         IN  removeConflicts(next, fullId, Tail(revs))

\* resolveConflict(table, id, winningDoc).  ok: it resolved; error: what it
\* rejected with; put: whether its put was made and went through; sent: the
\* record its put sent; afterPut: the record after the put
resolveConflict(st, table, id, winningDoc, iv) ==
    LET fullId == FullId(table, id)
        doc == dbGet(st, fullId)
        putId == FullId(table, winningDoc[KId])
        encryptedDoc == encryptDoc(winningDoc, putId, Passphrase, iv)
        toStore == IF KRev \in DOMAIN winningDoc
                   THEN Spread(encryptedDoc, (KRev :> winningDoc[KRev]))
                   ELSE encryptedDoc
        result == dbPut(st[putId], toStore)
        written == [st EXCEPT ![putId] = result.leaves]
        removed == removeConflicts([st |-> written, attempts |-> <<>>,
                                    writes |-> <<written>>, threw |-> FALSE],
                                   fullId, doc[1][KConflicts])
        failed(error) == [ok |-> FALSE, error |-> Some(error), put |-> FALSE,
                          sent |-> toStore, rev |-> <<0, 0>>, afterPut |-> {}, st |-> st,
                          conflicts |-> <<>>, attempts |-> <<>>, writes |-> <<>>]
    IN  IF doc = None THEN failed("not_found")
        ELSE IF ~HasConflicts(doc[1]) THEN failed("No conflicts found")
        ELSE IF ~result.ok
        THEN [failed("conflict") EXCEPT !.conflicts = doc[1][KConflicts]]
        ELSE [ok |-> ~removed.threw,
              error |-> IF removed.threw THEN Some("conflict") ELSE None,
              put |-> TRUE, sent |-> toStore, rev |-> result.rev,
              afterPut |-> result.leaves, st |-> removed.st,
              conflicts |-> doc[1][KConflicts], attempts |-> removed.attempts,
              writes |-> removed.writes]

\* the store announces every write of a resolveConflict
RECURSIVE announceAll(_, _, _, _)
announceAll(ch, tail, writes, id) ==
    IF writes = <<>> THEN [chain |-> ch, processingChain |-> tail]
    ELSE LET next == emit(ch, tail, Cardinality(subs), ChangeOf(Head(writes), id),
                          [put |-> FALSE, table |-> <<>>, doc |-> Winner(Head(writes)[id]),
                           rev |-> Winner(Head(writes)[id])[KRev],
                           subs |-> Cardinality(subs)])
         IN  announceAll(next, IF subs = {} THEN tail ELSE Len(next), Tail(writes), id)

\* lastPut: the call and what resolveConflict made of it
ResolveConflict(table, id, winningDoc, iv) ==
    /\ used.put < limit.put
    /\ FullId(table, id) \in IdSet
    /\ FullId(table, winningDoc[KId]) \in IdSet
    /\ lastPut' = Some([op |-> "resolveConflict", table |-> table, id |-> id,
                        doc |-> winningDoc, before |-> store[FullId(table, id)]]
                       @@ resolveConflict(store, table, id, winningDoc, iv))
    /\ store' = lastPut'[1].st
    /\ chain' = announceAll(chain, processingChain, lastPut'[1].writes,
                            FullId(table, id)).chain
    /\ processingChain' = announceAll(chain, processingChain, lastPut'[1].writes,
                                      FullId(table, id)).processingChain
    /\ used' = [used EXCEPT !.put = @ + 1]
    /\ UNCHANGED <<listener, changesHandler, subs, nextSub, load, notes, limit,
                   lastRead, sync, cipher>>

----------------------------------------------------------------------------
(* get: what it returns *)

\* the try block of get.  threw: it was left by an exception; ret: the
\* document it returns otherwise; notes: the callbacks it invoked
getTry(st, table, id, src) ==
    LET encryptedDoc == dbGet(st, FullId(table, id))
        doc == decryptDoc(encryptedDoc[1], Passphrase)
        bci == buildConflictInfo(st, encryptedDoc[1][KId], encryptedDoc[1][KRev],
                                 encryptedDoc[1][KConflicts], doc[1], src)
        called == <<Note("onConflict", src, <<bci.info>>)>>
    IN  IF encryptedDoc = None \/ doc = None
        THEN [threw |-> TRUE, ret |-> None, notes |-> <<>>]
        ELSE IF ~(HasConflicts(encryptedDoc[1]) /\ listener.onConflict)
        THEN [threw |-> FALSE, ret |-> doc, notes |-> <<>>]
        ELSE IF bci.threw
        THEN [threw |-> TRUE, ret |-> None, notes |-> bci.notes]
        ELSE [threw |-> Throws("onConflict"), ret |-> doc,
              notes |-> bci.notes \o called]

\* no catch: what the try block throws leaves get
getCatchRethrow(r) == [threw |-> r.threw, ret |-> r.ret, notes |-> r.notes]

\* catch { return null }
ReadSrc(op) == <<op, used.read + 1>>

\* the catch reports what it caught to onError
getCatchReports(r) ==
    [threw |-> FALSE, ret |-> IF r.threw THEN None ELSE r.ret,
     notes |-> r.notes \o (IF r.threw /\ listener.onError
                           THEN <<Note("onError", ReadSrc("get"), <<>>)>> ELSE <<>>)]

getCatch(r) ==
    [threw |-> FALSE, ret |-> IF r.threw THEN None ELSE r.ret, notes |-> r.notes]

\* ret: the document or <<>> for null; notes: the callbacks it invoked
get(st, table, id, src) == getCatch(getTry(st, table, id, src))

\* the conflict listener is called with the result, as get calls it
getConflictInfoTryNotifies(st, table, id, src) ==
    LET encryptedDoc == dbGet(st, FullId(table, id))
        doc == decryptDoc(encryptedDoc[1], Passphrase)
        bci == buildConflictInfo(st, encryptedDoc[1][KId], encryptedDoc[1][KRev],
                                 encryptedDoc[1][KConflicts], doc[1], src)
        called == IF listener.onConflict
                  THEN <<Note("onConflict", src, <<bci.info>>)>> ELSE <<>>
    IN  IF encryptedDoc = None
        THEN [threw |-> TRUE, ret |-> None, notes |-> <<>>, built |-> None]
        ELSE IF ~HasConflicts(encryptedDoc[1])
        THEN [threw |-> FALSE, ret |-> None, notes |-> <<>>, built |-> None]
        ELSE IF doc = None
        THEN [threw |-> TRUE, ret |-> None, notes |-> <<>>, built |-> None]
        ELSE IF bci.threw
        THEN [threw |-> TRUE, ret |-> None, notes |-> bci.notes, built |-> Some(bci)]
        ELSE [threw |-> FALSE, ret |-> Some(bci.info), notes |-> bci.notes \o called,
              built |-> Some(bci)]

\* the try block of getConflictInfo.  built: what buildConflictInfo gave,
\* when it was called
getConflictInfoTry(st, table, id, src) ==
    LET encryptedDoc == dbGet(st, FullId(table, id))
        doc == decryptDoc(encryptedDoc[1], Passphrase)
        bci == buildConflictInfo(st, encryptedDoc[1][KId], encryptedDoc[1][KRev],
                                 encryptedDoc[1][KConflicts], doc[1], src)
    IN  IF encryptedDoc = None
        THEN [threw |-> TRUE, ret |-> None, notes |-> <<>>, built |-> None]
        ELSE IF ~HasConflicts(encryptedDoc[1])
        THEN [threw |-> FALSE, ret |-> None, notes |-> <<>>, built |-> None]
        ELSE IF doc = None
        THEN [threw |-> TRUE, ret |-> None, notes |-> <<>>, built |-> None]
        ELSE IF bci.threw
        THEN [threw |-> TRUE, ret |-> None, notes |-> bci.notes, built |-> Some(bci)]
        ELSE [threw |-> FALSE, ret |-> Some(bci.info), notes |-> bci.notes,
              built |-> Some(bci)]

\* catch { return null }
getConflictInfoCatch(r) ==
    [threw |-> FALSE, ret |-> IF r.threw THEN None ELSE r.ret, notes |-> r.notes,
     built |-> r.built]

\* ret: <<info>>, or <<>> for null
getConflictInfo(st, table, id, src) ==
    getConflictInfoCatch(getConflictInfoTry(st, table, id, src))

\* the loop of getAll without the test of the table
RECURSIVE getAllRowsAnyTable(_, _, _, _)
getAllRowsAnyTable(acc, rows, i, table) ==
    IF i > Len(rows) THEN acc
    ELSE LET encryptedDoc == rows[i].doc
             doc == decryptDoc(encryptedDoc, Passphrase)
             next == IF StartsWithDesign(rows[i].id) \/ KD \notin DOMAIN encryptedDoc
                     THEN acc
                     ELSE IF doc = None
                     THEN [acc EXCEPT !.errors = Append(@,
                               ErrEv(encryptedDoc[KId], None,
                                     decryptDocError(encryptedDoc), encryptedDoc))]
                     ELSE [acc EXCEPT !.docs = Append(@, doc[1])]
         IN  getAllRowsAnyTable(next, rows, i + 1, table)

\* the loop of getAll over the rows
RECURSIVE getAllRows(_, _, _, _)
getAllRows(acc, rows, i, table) ==
    IF i > Len(rows) THEN acc
    ELSE LET encryptedDoc == rows[i].doc
             doc == decryptDoc(encryptedDoc, Passphrase)
             parsed == parseFullId(encryptedDoc[KId])
             next == IF StartsWithDesign(rows[i].id) \/ KD \notin DOMAIN encryptedDoc
                     THEN acc
                     ELSE IF doc = None
                     THEN [acc EXCEPT !.errors = Append(@,
                               ErrEv(encryptedDoc[KId], None,
                                     decryptDocError(encryptedDoc), encryptedDoc))]
                     ELSE IF parsed # None /\ (table = None \/ parsed[1].table = table[1])
                     THEN [acc EXCEPT !.docs = Append(@, doc[1])]
                     ELSE acc
         IN  getAllRows(next, rows, i + 1, table)

\* getAll(table?): threw when the onError it called threw
getAll(st, table, src) ==
    LET acc == getAllRows([docs |-> <<>>, errors |-> <<>>], allDocs(st), 1, table)
        called == IF Len(acc.errors) > 0 /\ listener.onError
                  THEN <<Note("onError", src, acc.errors)>> ELSE <<>>
    IN  [threw |-> called # <<>> /\ Throws("onError"), ret |-> acc.docs,
         notes |-> called]

Get(table, id) ==
    /\ used.read < limit.read
    /\ FullId(table, id) \in IdSet
    /\ LET r == get(store, table, id, ReadSrc("get"))
       IN  /\ lastRead' = Some([op |-> "get", table |-> Some(table), id |-> Some(id),
                                threw |-> r.threw, ret |-> r.ret,
                                found |-> dbGet(store, FullId(table, id)) # None,
                                src |-> ReadSrc("get"), rows |-> allDocs(store)])
           /\ notes' = notes \o r.notes
    /\ used' = [used EXCEPT !.read = @ + 1]
    /\ UNCHANGED <<store, listener, changesHandler, subs, nextSub, chain,
                   processingChain, load, lastPut, limit, sync, cipher>>

GetConflictInfo(table, id) ==
    /\ used.read < limit.read
    /\ FullId(table, id) \in IdSet
    /\ LET r == getConflictInfo(store, table, id, ReadSrc("getConflictInfo"))
       IN  /\ lastRead' = Some([op |-> "getConflictInfo", table |-> Some(table),
                                id |-> Some(id), threw |-> r.threw, ret |-> r.ret,
                                found |-> dbGet(store, FullId(table, id)) # None,
                                src |-> ReadSrc("getConflictInfo"),
                                leaves |-> store[FullId(table, id)],
                                built |-> r.built])
           /\ notes' = notes \o r.notes
    /\ used' = [used EXCEPT !.read = @ + 1]
    /\ UNCHANGED <<store, listener, changesHandler, subs, nextSub, chain,
                   processingChain, load, lastPut, limit, sync, cipher>>

GetAll(table) ==
    /\ used.read < limit.read
    /\ LET r == getAll(store, table, ReadSrc("getAll"))
       IN  /\ lastRead' = Some([op |-> "getAll", table |-> table, id |-> None,
                                threw |-> r.threw, ret |-> r.ret, found |-> TRUE,
                                src |-> ReadSrc("getAll"), rows |-> allDocs(store)])
           /\ notes' = notes \o r.notes
    /\ used' = [used EXCEPT !.read = @ + 1]
    /\ UNCHANGED <<store, listener, changesHandler, subs, nextSub, chain,
                   processingChain, load, lastPut, limit, sync, cipher>>

----------------------------------------------------------------------------
(* loadAll.  load.pc: "idle" (never called), "rows" (in the loop over        *)
(* result.rows, about to take rows[i]), "done" (returned).                   *)

LoadSrc(n) == <<"load", n>>

\* a batch of its own for every document
addToTableNewBatch(docsByTable, table, doc) ==
    Append(docsByTable, [table |-> table, docs |-> <<doc>>])

\* docsByTable.get(table).push(doc), keeping the Map's insertion order
addToTable(docsByTable, table, doc) ==
    IF \E i \in DOMAIN docsByTable : docsByTable[i].table = table
    THEN [i \in DOMAIN docsByTable |->
            IF docsByTable[i].table = table
            THEN [docsByTable[i] EXCEPT !.docs = Append(@, doc)]
            ELSE docsByTable[i]]
    ELSE Append(docsByTable, [table |-> table, docs |-> <<doc>>])

\* one turn of the loop: the accumulators after it, and the callbacks invoked
loadRow(acc, row, st, src) ==
    LET encryptedDoc == row.doc
        doc == decryptDoc(encryptedDoc, Passphrase)
        parsed == parseFullId(encryptedDoc[KId])
        added == IF parsed # None
                 THEN addToTable(acc.docsByTable, parsed[1].table, doc[1])
                 ELSE acc.docsByTable
        bci == buildConflictInfo(st, encryptedDoc[KId], encryptedDoc[KRev],
                                 encryptedDoc[KConflicts], doc[1], src)
        caught(error) == Append(acc.errors,
                                ErrEv(encryptedDoc[KId], None, error, encryptedDoc))
    IN  IF StartsWithDesign(row.id) \/ KD \notin DOMAIN encryptedDoc
        THEN [acc EXCEPT !.called = <<>>]
        ELSE IF doc = None
        THEN [acc EXCEPT !.errors = caught(decryptDocError(encryptedDoc)),
                         !.called = <<>>]
        ELSE IF ~HasConflicts(encryptedDoc)
        THEN [acc EXCEPT !.docsByTable = added, !.called = <<>>]
        ELSE IF bci.threw
        THEN [acc EXCEPT !.docsByTable = added, !.errors = caught(ListenerError),
                         !.called = bci.notes]
        ELSE [acc EXCEPT !.docsByTable = added,
                         !.conflicts = Append(@, bci.info),
                         !.called = bci.notes]

\* the three notifications after the loop; a callback that throws ends them
loadDispatch(acc, src) ==
    LET n1 == IF Len(acc.docsByTable) > 0
              THEN <<Note("onChange", src, acc.docsByTable)>> ELSE <<>>
        threw1 == n1 # <<>> /\ Throws("onChange")
        n2 == IF ~threw1 /\ Len(acc.errors) > 0 /\ listener.onError
              THEN <<Note("onError", src, acc.errors)>> ELSE <<>>
        threw2 == n2 # <<>> /\ Throws("onError")
        n3 == IF ~threw1 /\ ~threw2 /\ Len(acc.conflicts) > 0 /\ listener.onConflict
              THEN <<Note("onConflict", src, acc.conflicts)>> ELSE <<>>
        threw3 == n3 # <<>> /\ Throws("onConflict")
    IN  [notes |-> n1 \o n2 \o n3, threw |-> threw1 \/ threw2 \/ threw3]

\* the whole loop over result.rows
RECURSIVE loadRows(_, _, _, _, _)
loadRows(acc, rows, i, st, src) ==
    IF i > Len(rows) THEN acc
    ELSE LET next == loadRow(acc, rows[i], st, src)
         IN  loadRows([next EXCEPT !.notes = @ \o next.called], rows, i + 1, st, src)

\* no try/catch around the load: a failure rejects and nothing subscribes
loadAllSettleUncaught(threw) ==
    [result |-> IF threw THEN "rejected" ELSE "resolved", subscribe |-> ~threw]

\* try { ... } catch (error) { console.error(...) }  this.setupSubscription()
loadAllSettle(threw) == [result |-> "resolved", subscribe |-> TRUE]

EmptyAcc ==
    [docsByTable |-> <<>>, errors |-> <<>>, conflicts |-> <<>>, called |-> <<>>,
     notes |-> <<>>]

IdleLoad ==
    [pc |-> "idle", n |-> 0, rows |-> <<>>, scanned |-> FALSE, acc |-> EmptyAcc,
     threw |-> FALSE, result |-> "", sub |-> None]

\* the end of loadAll, reached with or without a failure: setupSubscription
\* opens a subscription and keeps its handle, whatever handle was held
LoadAllReturn(threw, n, rows, scanned, acc) ==
    LET s == loadAllSettle(threw)
    IN  /\ load' = [pc |-> "done", n |-> n, rows |-> rows, scanned |-> scanned,
                    acc |-> acc, threw |-> threw, result |-> s.result,
                    sub |-> IF s.subscribe THEN Some(nextSub + 1) ELSE None]
        /\ IF s.subscribe
           THEN /\ nextSub' = nextSub + 1
                /\ changesHandler' = Some(nextSub + 1)
                /\ subs' = subs \cup {nextSub + 1}
           ELSE UNCHANGED <<nextSub, changesHandler, subs>>

\* await this.db.allDocs(...) rejects
LoadAllScanFails ==
    /\ load.pc \in {"idle", "done"}
    /\ used.load < limit.load
    /\ LoadAllReturn(TRUE, load.n + 1, <<>>, FALSE, EmptyAcc)
    /\ used' = [used EXCEPT !.load = @ + 1]
    /\ UNCHANGED <<store, listener, chain, processingChain, notes, lastPut, limit, lastRead, sync, cipher>>

\* await this.db.allDocs(...) returns its rows
LoadAllScan ==
    /\ load.pc \in {"idle", "done"}
    /\ used.load < limit.load
    /\ load' = [IdleLoad EXCEPT !.pc = "rows", !.n = load.n + 1,
                                !.rows = allDocs(store), !.scanned = TRUE]
    /\ used' = [used EXCEPT !.load = @ + 1]
    /\ UNCHANGED <<store, listener, changesHandler, subs, nextSub, chain,
                   processingChain, notes, lastPut, limit, lastRead, sync, cipher>>

\* the loop over the rows (its awaits taken together: the competing revisions
\* are read from the store as it is now), the notifications, setupSubscription
LoadAllFinish ==
    /\ load.pc = "rows"
    /\ LET src == LoadSrc(load.n)
           acc == loadRows(EmptyAcc, load.rows, 1, store, src)
           d == loadDispatch(acc, src)
       IN  /\ notes' = notes \o acc.notes \o d.notes
           /\ LoadAllReturn(d.threw, load.n, load.rows, TRUE, acc)
    /\ UNCHANGED <<store, listener, chain, processingChain, lastPut, used, limit, lastRead, sync, cipher>>

----------------------------------------------------------------------------
(* reconnect.  It cancels the handle the instance holds, if it holds one,    *)
(* and subscribes again; the promise chain is not touched.                   *)

\* reconnect starts the new subscription on a chain of its own
reconnectFreshTail(handler, live, last, tail) ==
    [subs |-> (IF handler # None THEN live \ {handler[1]} ELSE live) \cup {last + 1},
     changesHandler |-> Some(last + 1), nextSub |-> last + 1, processingChain |-> 0]

\* if (this.changesHandler) { cancel(); this.changesHandler = null }
\* this.setupSubscription()
reconnect(handler, live, last, tail) ==
    [subs |-> (IF handler # None THEN live \ {handler[1]} ELSE live) \cup {last + 1},
     changesHandler |-> Some(last + 1), nextSub |-> last + 1, processingChain |-> tail]

Reconnect ==
    /\ used.reconnect < limit.reconnect
    /\ LET r == reconnect(changesHandler, subs, nextSub, processingChain)
       IN  /\ subs' = r.subs
           /\ changesHandler' = r.changesHandler
           /\ nextSub' = r.nextSub
           /\ processingChain' = r.processingChain
    /\ used' = [used EXCEPT !.reconnect = @ + 1]
    /\ UNCHANGED <<store, listener, chain, load, notes, lastPut, limit, lastRead,
                   sync, cipher>>

----------------------------------------------------------------------------
(* The sync coordinator.  sync.handles are the handles db.sync has returned, *)
(* each with its listeners in the order they were attached; sync.calls are   *)
(* the calls of connectRemote, syncNow, deleteAllAndSync and deleteAllLocal  *)
(* with the promise each returned; sync.log is what the handles and timers   *)
(* have signalled, in order; sync.last is the last of connectRemote,         *)
(* disconnectRemote and deleteAllLocal that was called.                      *)

ErrSyncNotConnected == "Sync is not connected. Call connectRemote() first or use deleteAllLocal() instead."
ErrNoRemote == "No remote connection configured. Call connectRemote() first."
ErrTimeout == "Timeout waiting for deletions to sync to remote"
ErrSync == "sync error"
ErrTypeError == "TypeError"

\* options.url
Urls == {"r"}

\* what a 'change' event of a handle carries: info.direction and
\* info.change.docs_written
ChangeInfos ==
    {[direction |-> "push", docs_written |-> w] : w \in {1, 2}}
    \cup {[direction |-> "pull", docs_written |-> 2]}

\* what the 'complete' event of a one-shot sync carries: docs_written of
\* info.push and of info.pull, <<>> where it is undefined
CompleteInfos == {[push |-> p, pull |-> q] : p, q \in {None, Some(0), Some(1)}}

\* db.sync(url, options): a handle, no listener on it yet
newHandle(kind, url) ==
    [kind |-> kind, url |-> url, cancelled |-> FALSE, ended |-> FALSE, listeners |-> <<>>]

\* handle.on(ev, fn); `call` is the call whose closure fn is, 0 for none
on(sy, h, ev, fn, call) ==
    [sy EXCEPT !.handles[h].listeners = Append(@, [ev |-> ev, fn |-> fn, call |-> call])]

\* this.syncHandler?.removeListener(ev, fn)
removeListener(sy, ev, fn, call) ==
    IF sy.syncHandler = None THEN sy
    ELSE [sy EXCEPT !.handles[sy.syncHandler[1]].listeners =
              SelectSeq(@, LAMBDA l : l # [ev |-> ev, fn |-> fn, call |-> call])]

\* a call as it starts: pc is where it is ("bulkDocs": its allDocs has
\* answered and bulkDocs is next, "listen": bulkDocs has answered, "wait": its
\* promise is pending, "resolved", "rejected"); resolved, changeCount and
\* timer are the variables of its promise's closure; after and held are
\* sync.last and this.syncHandler when it was called, records the records the
\* store had then; handle, at, read, docsToDelete and bulk record what it
\* did, open the handles that were replicating when its bulkDocs was issued,
\* bulkAt how much had been signalled by then
Call(op, sy, st) ==
    [op |-> op, after |-> sy.last, held |-> sy.syncHandler,
     records |-> {id \in IdSet : Exists(st, id)},
     pc |-> "wait", error |-> None, resolved |-> FALSE,
     changeCount |-> 0, timer |-> FALSE, handle |-> None, at |-> 0, read |-> FALSE,
     docsToDelete |-> <<>>, bulk |-> FALSE, open |-> {}, bulkAt |-> 0]

\* resolve() and reject(err) of a promise: the first one settles it
resolve(sy, c) ==
    IF sy.calls[c].pc = "wait" THEN [sy EXCEPT !.calls[c].pc = "resolved"] ELSE sy

reject(sy, c, err) ==
    IF sy.calls[c].pc = "wait"
    THEN [sy EXCEPT !.calls[c].pc = "rejected", !.calls[c].error = Some(err)]
    ELSE sy

\* the handle is dropped without being cancelled
disconnectRemoteNoCancel(sy) ==
    [sy EXCEPT !.syncHandler = None, !.remoteUrl = None]

\* the remote URL is kept
disconnectRemoteKeepUrl(sy) ==
    IF sy.syncHandler # None
    THEN [sy EXCEPT !.handles[sy.syncHandler[1]].cancelled = TRUE, !.syncHandler = None]
    ELSE sy

\* only the remote URL is cleared
disconnectRemoteUrlOnly(sy) == [sy EXCEPT !.remoteUrl = None]

\* disconnectRemote()
disconnectRemote(sy) ==
    LET cancelled == IF sy.syncHandler # None
                     THEN [sy EXCEPT !.handles[sy.syncHandler[1]].cancelled = TRUE,
                                     !.syncHandler = None]
                     ELSE sy
    IN  [cancelled EXCEPT !.remoteUrl = None]

\* connectRemote(options), to the promise it returns
connectRemote(sy, st, url) ==
    LET d == disconnectRemote(sy)
        h == Len(d.handles) + 1
        c == Len(d.calls) + 1
        opened == [d EXCEPT !.remoteUrl = Some(url),
                            !.handles = Append(@, newHandle("sync", url)),
                            !.syncHandler = Some(h)]
        heard == IF listener.onSync
                 THEN on(on(opened, h, "change", "onSync", 0), h, "error", "logError", 0)
                 ELSE opened
        waiting == [heard EXCEPT !.calls = Append(@,
                        [Call("connectRemote", sy, st) EXCEPT
                            !.timer = TRUE, !.handle = Some(h), !.at = Len(sy.log)])]
    IN  on(on(waiting, h, "active", "connectActive", c), h, "error", "connectError", c)

\* the 5 second timer of connectRemote rejects
connectTimeoutRejects(sy, c) ==
    IF sy.calls[c].resolved THEN sy
    ELSE reject([sy EXCEPT !.calls[c].resolved = TRUE], c, ErrTimeout)

\* the 5 second timer of connectRemote
connectTimeout(sy, c) ==
    IF sy.calls[c].resolved THEN sy
    ELSE resolve([sy EXCEPT !.calls[c].resolved = TRUE], c)

\* the 'active' listener of connectRemote
connectActive(sy, c) ==
    IF sy.calls[c].resolved THEN sy
    ELSE resolve([sy EXCEPT !.calls[c].timer = FALSE, !.calls[c].resolved = TRUE], c)

\* the 'error' listener of connectRemote
connectError(sy, c, err) ==
    IF sy.calls[c].resolved THEN sy
    ELSE reject([sy EXCEPT !.calls[c].timer = FALSE, !.calls[c].resolved = TRUE], c, err)

\* docsToDelete: a tombstone for every row that is not a design document
docsToDelete(st) ==
    LET rows == SelectSeq(allDocs(st), LAMBDA row : ~StartsWithDesign(row.id))
    IN  [i \in DOMAIN rows |->
            (KId :> rows[i].id) @@ (KRev :> rows[i].doc[KRev]) @@ (KDeleted :> "true")]

\* db.bulkDocs(docs): every document is written on its own, one that
\* conflicts is left out
RECURSIVE bulkDocs(_, _)
bulkDocs(st, docs) ==
    IF docs = <<>> THEN st
    ELSE LET doc == Head(docs)
             result == dbPut(st[doc[KId]], doc)
         IN  bulkDocs(IF result.ok THEN [st EXCEPT ![doc[KId]] = result.leaves] ELSE st,
                      Tail(docs))

\* the changes of a bulkDocs reach every live subscription, record by record
RECURSIVE emitAll(_, _, _, _, _)
emitAll(ch, tail, st, before, docs) ==
    IF docs = <<>> THEN [chain |-> ch, processingChain |-> tail]
    ELSE LET id == Head(docs)[KId]
             next == IF st[id] = before[id] THEN ch
                     ELSE emit(ch, tail, Cardinality(subs), ChangeOf(st, id),
                               [put |-> FALSE, table |-> <<>>, doc |-> Head(docs),
                                rev |-> Winner(st[id])[KRev], subs |-> Cardinality(subs)])
         IN  emitAll(next, IF subs = {} THEN tail ELSE Len(next), st, before, Tail(docs))

\* with nothing to delete it goes on to wait as with something
deleteAllAndSyncStartWaits(sy, st) ==
    LET docs == docsToDelete(st)
        c == IF sy.syncHandler = None
             THEN [Call("deleteAllAndSync", sy, st) EXCEPT
                      !.pc = "rejected", !.error = Some(ErrSyncNotConnected)]
             ELSE [Call("deleteAllAndSync", sy, st) EXCEPT
                      !.read = TRUE, !.docsToDelete = docs, !.pc = "bulkDocs"]
    IN  [sy EXCEPT !.calls = Append(@, c)]

\* deleteAllAndSync() to its second await: the guard, allDocs, docsToDelete
deleteAllAndSyncStart(sy, st) ==
    LET docs == docsToDelete(st)
        c == IF sy.syncHandler = None
             THEN [Call("deleteAllAndSync", sy, st) EXCEPT
                      !.pc = "rejected", !.error = Some(ErrSyncNotConnected)]
             ELSE [Call("deleteAllAndSync", sy, st) EXCEPT
                      !.read = TRUE, !.docsToDelete = docs,
                      !.pc = IF docs = <<>> THEN "resolved" ELSE "bulkDocs"]
    IN  [sy EXCEPT !.calls = Append(@, c)]

\* deleteAllAndSync() after bulkDocs: the promise, its timer and its two
\* listeners on this.syncHandler; without a handle the executor throws
deleteAllAndSyncWait(sy, c) ==
    LET timed == [sy EXCEPT !.calls[c].timer = TRUE, !.calls[c].pc = "wait",
                            !.calls[c].at = Len(sy.log)]
    IN  IF sy.syncHandler = None
        THEN reject(timed, c, ErrTypeError)
        ELSE on(on([timed EXCEPT !.calls[c].handle = sy.syncHandler],
                   sy.syncHandler[1], "change", "changeHandler", c),
                sy.syncHandler[1], "error", "errorHandler", c)

\* the 30 second timer of deleteAllAndSync
deleteTimeout(sy, c) ==
    IF sy.calls[c].resolved THEN sy
    ELSE reject([sy EXCEPT !.calls[c].resolved = TRUE], c, ErrTimeout)

\* what settles deleteAllAndSync from a listener: clearTimeout, resolved,
\* and the two removeListener calls
deleteSettle(sy, c) ==
    removeListener(
        removeListener([sy EXCEPT !.calls[c].timer = FALSE, !.calls[c].resolved = TRUE],
                       "change", "changeHandler", c),
        "error", "errorHandler", c)

\* events of either direction are counted
changeHandlerAnyDirection(sy, c, info) ==
    LET counted == [sy EXCEPT !.calls[c].changeCount = @ + info.docs_written]
    IN  IF counted.calls[c].changeCount >= Len(sy.calls[c].docsToDelete)
           /\ ~sy.calls[c].resolved
        THEN resolve(deleteSettle(counted, c), c)
        ELSE counted

\* changeHandler of deleteAllAndSync
changeHandler(sy, c, info) ==
    IF info.direction # "push" THEN sy
    ELSE LET counted == [sy EXCEPT !.calls[c].changeCount = @ + info.docs_written]
         IN  IF counted.calls[c].changeCount >= Len(sy.calls[c].docsToDelete)
                /\ ~sy.calls[c].resolved
             THEN resolve(deleteSettle(counted, c), c)
             ELSE counted

\* errorHandler of deleteAllAndSync
errorHandler(sy, c, err) ==
    IF sy.calls[c].resolved THEN sy
    ELSE reject(deleteSettle(sy, c), c, err)

\* the pull statistics are delivered before the push statistics
syncNowNotesPullFirst(h, info) ==
    IF ~listener.onSync THEN <<>>
    ELSE (IF info.pull # None
          THEN <<Note("onSync", <<"sync", h>>,
                      [direction |-> "pull", docs_written |-> info.pull[1]])>>
          ELSE <<>>)
         \o (IF info.push # None /\ ~(info.pull # None /\ Throws("onSync"))
             THEN <<Note("onSync", <<"sync", h>>,
                         [direction |-> "push", docs_written |-> info.push[1]])>>
             ELSE <<>>)

\* a direction is delivered only when it wrote documents
syncNowNotesOnlyWritten(h, info) ==
    IF ~listener.onSync THEN <<>>
    ELSE (IF info.push # None /\ info.push # Some(0)
          THEN <<Note("onSync", <<"sync", h>>,
                      [direction |-> "push", docs_written |-> info.push[1]])>>
          ELSE <<>>)
         \o (IF info.pull # None /\ info.pull # Some(0)
                 /\ ~(info.push # None /\ info.push # Some(0) /\ Throws("onSync"))
             THEN <<Note("onSync", <<"sync", h>>,
                         [direction |-> "pull", docs_written |-> info.pull[1]])>>
             ELSE <<>>)

\* the onSync calls of the 'complete' listener of syncNow
syncNowNotes(h, info) ==
    IF ~listener.onSync THEN <<>>
    ELSE (IF info.push # None
          THEN <<Note("onSync", <<"sync", h>>,
                      [direction |-> "push", docs_written |-> info.push[1]])>>
          ELSE <<>>)
         \o (IF info.pull # None /\ ~(info.push # None /\ Throws("onSync"))
             THEN <<Note("onSync", <<"sync", h>>,
                         [direction |-> "pull", docs_written |-> info.pull[1]])>>
             ELSE <<>>)

\* syncNow(): the guard, the one-shot handle and its two listeners
syncNow(sy, st) ==
    LET h == Len(sy.handles) + 1
        c == Len(sy.calls) + 1
    IN  IF sy.remoteUrl = None \/ sy.remoteUrl = Some("")
        THEN [sy EXCEPT !.calls = Append(@,
                  [Call("syncNow", sy, st) EXCEPT
                      !.pc = "rejected", !.error = Some(ErrNoRemote)])]
        ELSE on(on([sy EXCEPT !.handles = Append(@, newHandle("once", sy.remoteUrl[1])),
                              !.calls = Append(@,
                                  [Call("syncNow", sy, st) EXCEPT
                                      !.handle = Some(h), !.at = Len(sy.log)])],
                   h, "complete", "syncNowComplete", c),
                h, "error", "syncNowError", c)

\* one listener of a handle is called with what the event carries.  threw:
\* it threw, and the listeners after it are not called
runListener(S, l, h, info) ==
    IF l.fn = "onSync"
    THEN IF listener.onSync
         THEN [S EXCEPT !.notes = Append(@, Note("onSync", <<"sync", h>>, info)),
                        !.threw = Throws("onSync")]
         ELSE S
    ELSE IF l.fn = "connectActive" THEN [S EXCEPT !.sy = connectActive(@, l.call)]
    ELSE IF l.fn = "connectError" THEN [S EXCEPT !.sy = connectError(@, l.call, info)]
    ELSE IF l.fn = "changeHandler" THEN [S EXCEPT !.sy = changeHandler(@, l.call, info)]
    ELSE IF l.fn = "errorHandler" THEN [S EXCEPT !.sy = errorHandler(@, l.call, info)]
    ELSE IF l.fn = "syncNowComplete"
    THEN [S EXCEPT !.notes = @ \o syncNowNotes(h, info),
                   !.threw = listener.onSync /\ Throws("onSync")
                             /\ (info.push # None \/ info.pull # None),
                   !.sy = IF listener.onSync /\ Throws("onSync")
                             /\ (info.push # None \/ info.pull # None)
                          THEN @ ELSE resolve(@, l.call)]
    ELSE IF l.fn = "syncNowError" THEN [S EXCEPT !.sy = reject(@, l.call, info)]
    ELSE S

\* handle.emit(ev, info): the listeners of ev that were attached when the
\* event was emitted, in the order they were attached
RECURSIVE runListeners(_, _, _, _)
runListeners(S, ls, h, info) ==
    IF ls = <<>> \/ S.threw THEN S
    ELSE runListeners(runListener(S, Head(ls), h, info), Tail(ls), h, info)

emitEvent(sy, h, ev, info) ==
    runListeners([sy |-> [sy EXCEPT !.log = Append(@, [h |-> h, ev |-> ev, info |-> info])],
                  notes |-> <<>>, threw |-> FALSE],
                 SelectSeq(sy.handles[h].listeners, LAMBDA l : l.ev = ev), h, info)

\* what the other variables keep when only the coordinator moves
SyncOnly ==
    UNCHANGED <<store, listener, changesHandler, subs, nextSub, chain, processingChain,
                load, lastPut, limit, lastRead, cipher>>

ConnectRemote(url) ==
    /\ used.sync < limit.sync
    /\ sync' = [connectRemote(sync, store, url) EXCEPT !.last = "connectRemote"]
    /\ used' = [used EXCEPT !.sync = @ + 1]
    /\ UNCHANGED notes
    /\ SyncOnly

DisconnectRemote ==
    /\ used.sync < limit.sync
    /\ sync' = [disconnectRemote(sync) EXCEPT !.last = "disconnectRemote"]
    /\ used' = [used EXCEPT !.sync = @ + 1]
    /\ UNCHANGED notes
    /\ SyncOnly

SyncNow ==
    /\ used.sync < limit.sync
    /\ sync' = syncNow(sync, store)
    /\ used' = [used EXCEPT !.sync = @ + 1]
    /\ UNCHANGED notes
    /\ SyncOnly

\* deleteAllLocal() to its second await: disconnectRemote, allDocs,
\* docsToDelete
DeleteAllLocal ==
    /\ used.sync < limit.sync
    /\ LET docs == docsToDelete(store)
           c == [Call("deleteAllLocal", sync, store) EXCEPT
                    !.read = TRUE, !.docsToDelete = docs,
                    !.pc = IF docs = <<>> THEN "resolved" ELSE "bulkDocs"]
       IN  sync' = [disconnectRemote(sync) EXCEPT !.calls = Append(@, c),
                                                  !.last = "deleteAllLocal"]
    /\ used' = [used EXCEPT !.sync = @ + 1]
    /\ UNCHANGED notes
    /\ SyncOnly

\* the handles that replicate: db.sync returned them, they were not
\* cancelled, and a one-shot sync among them has not completed or failed
Replicating(sy) ==
    {h \in DOMAIN sy.handles : ~sy.handles[h].cancelled /\ ~sy.handles[h].ended}

\* bulkDocs(docsToDelete) of the call c, and what the call does after it
BulkDelete(c, pc) ==
    /\ sync.calls[c].pc = "bulkDocs"
    /\ store' = bulkDocs(store, sync.calls[c].docsToDelete)
    /\ LET e == emitAll(chain, processingChain, store', store, sync.calls[c].docsToDelete)
       IN  chain' = e.chain /\ processingChain' = e.processingChain
    /\ sync' = [sync EXCEPT !.calls[c].bulk = TRUE, !.calls[c].pc = pc,
                            !.calls[c].open = Replicating(sync),
                            !.calls[c].bulkAt = Len(sync.log)]
    /\ lastPut' = None
    /\ UNCHANGED <<listener, changesHandler, subs, nextSub, load, notes, used, limit,
                   lastRead, cipher>>

DeleteAllLocalBulk(c) ==
    /\ sync.calls[c].op = "deleteAllLocal"
    /\ BulkDelete(c, "resolved")

DeleteAllAndSync ==
    /\ used.sync < limit.sync
    /\ sync' = deleteAllAndSyncStart(sync, store)
    /\ used' = [used EXCEPT !.sync = @ + 1]
    /\ UNCHANGED notes
    /\ SyncOnly

DeleteAllAndSyncBulk(c) ==
    /\ sync.calls[c].op = "deleteAllAndSync"
    /\ BulkDelete(c, "listen")

DeleteAllAndSyncWait(c) ==
    /\ sync.calls[c].op = "deleteAllAndSync"
    /\ sync.calls[c].pc = "listen"
    /\ sync' = deleteAllAndSyncWait(sync, c)
    /\ UNCHANGED <<notes, used>>
    /\ SyncOnly

\* a timer fires: it is no longer armed, and its callback runs
timerFired(sy, c) ==
    [sy EXCEPT !.calls[c].timer = FALSE,
               !.log = Append(@, [h |-> 0, ev |-> "timer", info |-> c])]

ConnectTimer(c) ==
    /\ sync.calls[c].op = "connectRemote"
    /\ sync.calls[c].timer
    /\ sync' = connectTimeout(timerFired(sync, c), c)
    /\ UNCHANGED <<notes, used>>
    /\ SyncOnly

DeleteTimer(c) ==
    /\ sync.calls[c].op = "deleteAllAndSync"
    /\ sync.calls[c].timer
    /\ sync' = deleteTimeout(timerFired(sync, c), c)
    /\ UNCHANGED <<notes, used>>
    /\ SyncOnly

\* a handle that was not cancelled and has not ended emits an event
SyncEvent(h, kind, ev, info, ends) ==
    /\ used.event < limit.event
    /\ sync.handles[h].kind \in kind
    /\ ~sync.handles[h].cancelled
    /\ ~sync.handles[h].ended
    /\ LET S == emitEvent(sync, h, ev, info)
       IN  /\ sync' = [S.sy EXCEPT !.handles[h].ended = ends]
           /\ notes' = notes \o S.notes
    /\ used' = [used EXCEPT !.event = @ + 1]
    /\ SyncOnly

SyncActive(h) == SyncEvent(h, {"sync"}, "active", "", FALSE)

SyncChange(h, info) == SyncEvent(h, {"sync"}, "change", info, FALSE)

SyncError(h) == SyncEvent(h, {"sync", "once"}, "error", ErrSync, sync.handles[h].kind = "once")

SyncComplete(h, info) == SyncEvent(h, {"once"}, "complete", info, TRUE)

----------------------------------------------------------------------------
(* EncryptionHelper on strings and bytes.  A string is the sequence of its  *)
(* UTF-16 code units: a plaintext is made of "a", "b", "FEFF" (the byte     *)
(* order mark), "D800" (a surrogate without its pair) and "FFFD" (the       *)
(* replacement character); a ciphertext string is made of hex digits, "|"   *)
(* and "g", which is no hex digit.  A byte is a number in 0..255.           *)

HexDigits ==
    <<"0", "1", "2", "3", "4", "5", "6", "7", "8", "9", "a", "b", "c", "d", "e", "f">>

\* byte.toString(16).padStart(2, "0")
toHex(byte) == <<HexDigits[(byte \div 16) + 1], HexDigits[(byte % 16) + 1]>>

RECURSIVE toHexString(_)
toHexString(bytes) ==
    IF bytes = <<>> THEN <<>> ELSE toHex(Head(bytes)) \o toHexString(Tail(bytes))

\* parseInt(byte, 16) of a chunk of one or two characters: the value of its
\* longest prefix of hex digits, <<>> (NaN) when it has none
parseInt(byte) ==
    IF IndexOf(HexDigits, byte[1]) = 0 THEN None
    ELSE IF Len(byte) = 1 \/ IndexOf(HexDigits, byte[2]) = 0
    THEN Some(IndexOf(HexDigits, byte[1]) - 1)
    ELSE Some(16 * (IndexOf(HexDigits, byte[1]) - 1) + IndexOf(HexDigits, byte[2]) - 1)

\* hexString.match(/.{1,2}/g); <<>> stands for null
RECURSIVE match(_)
match(hexString) ==
    IF Len(hexString) <= 2
    THEN IF hexString = <<>> THEN <<>> ELSE <<hexString>>
    ELSE <<SubSeq(hexString, 1, 2)>> \o match(SubSeq(hexString, 3, Len(hexString)))

\* a chunk that holds anything but hex digits makes fromHexString throw
fromHexStringStrict(hexString) ==
    LET chunks == match(hexString)
    IN  IF chunks = <<>> \/ Len(hexString) % 2 = 1
           \/ \E i \in DOMAIN hexString : IndexOf(HexDigits, hexString[i]) = 0
        THEN None
        ELSE Some([i \in DOMAIN chunks |-> parseInt(chunks[i])[1] % 256])

\* <<bytes>>, or <<>> when it throws: match gave null (TypeError).  In a
\* Uint8Array NaN is stored as 0
fromHexString(hexString) ==
    LET chunks == match(hexString)
    IN  IF chunks = <<>> THEN None
        ELSE Some([i \in DOMAIN chunks |->
                      IF parseInt(chunks[i]) = None THEN 0
                      ELSE parseInt(chunks[i])[1] % 256])

\* data.split("|")
RECURSIVE split(_)
split(data) ==
    LET idx == IndexOf(data, "|")
    IN  IF idx = 0 THEN <<data>>
        ELSE <<SubSeq(data, 1, idx - 1)>> \o split(SubSeq(data, idx + 1, Len(data)))

\* the UTF-8 bytes of a code unit; a surrogate without its pair is encoded
\* as the replacement character
utf8(unit) ==
    CASE unit = "a" -> <<97>>
      [] unit = "b" -> <<98>>
      [] unit = "FEFF" -> <<239, 187, 191>>
      [] OTHER -> <<239, 191, 189>>

\* new TextEncoder().encode(data)
RECURSIVE encode(_)
encode(data) == IF data = <<>> THEN <<>> ELSE utf8(Head(data)) \o encode(Tail(data))

\* the code units of UTF-8 bytes; a byte that starts no character known here
\* is decoded as the replacement character
RECURSIVE decodeUtf8(_)
decodeUtf8(bytes) ==
    IF bytes = <<>> THEN <<>>
    ELSE IF Head(bytes) = 97 THEN <<"a">> \o decodeUtf8(Tail(bytes))
    ELSE IF Head(bytes) = 98 THEN <<"b">> \o decodeUtf8(Tail(bytes))
    ELSE IF Len(bytes) >= 3 /\ SubSeq(bytes, 1, 3) = <<239, 187, 191>>
    THEN <<"FEFF">> \o decodeUtf8(SubSeq(bytes, 4, Len(bytes)))
    ELSE IF Len(bytes) >= 3 /\ SubSeq(bytes, 1, 3) = <<239, 191, 189>>
    THEN <<"FFFD">> \o decodeUtf8(SubSeq(bytes, 4, Len(bytes)))
    ELSE <<"FFFD">> \o decodeUtf8(Tail(bytes))

\* a decoder that keeps the byte order mark (ignoreBOM)
decodeIgnoreBOM(bytes) == decodeUtf8(bytes)

\* new TextDecoder().decode(decrypted): ignoreBOM is false, a leading byte
\* order mark is removed
decode(bytes) ==
    LET text == decodeUtf8(bytes)
    IN  IF text # <<>> /\ Head(text) = "FEFF" THEN Tail(text) ELSE text

RECURSIVE SumBytes(_)
SumBytes(bytes) == IF bytes = <<>> THEN 0 ELSE Head(bytes) + SumBytes(Tail(bytes))

\* crypto.subtle.encrypt({name: "AES-GCM", iv}, key, encoded): a keyed,
\* invertible transformation of the bytes followed by a tag that binds the
\* key, the iv and the plaintext
subtleEncrypt(key, iv, encoded) ==
    [i \in 1..Len(encoded) |-> (encoded[i] + key + iv[((i - 1) % Len(iv)) + 1]) % 256]
    \o <<key>> \o iv \o <<SumBytes(encoded) % 256>>

\* crypto.subtle.decrypt: <<bytes>>, or <<>> when it throws: TypeError for
\* data that is undefined (<<>> here), OperationError when the tag is not
\* the tag of what it decrypts
subtleDecrypt(key, iv, data) ==
    IF data = None \/ Len(data[1]) < Len(iv) + 2 THEN None
    ELSE LET n == Len(data[1]) - Len(iv) - 2
             decrypted == [i \in 1..n |->
                              (data[1][i] + 512 - key - iv[((i - 1) % Len(iv)) + 1]) % 256]
             tag == SubSeq(data[1], n + 1, Len(data[1]))
         IN  IF tag = <<key>> \o iv \o <<SumBytes(decrypted) % 256>>
             THEN Some(decrypted) ELSE None

\* crypto.subtle.deriveBits (PBKDF2, the passphrase as salt) and
\* crypto.subtle.digest (SHA-256), as two functions of the passphrase bytes
\* that never agree
deriveBits(pwUtf8) == (2 * SumBytes(pwUtf8) + 1) % 256

digest(pwUtf8) == (2 * SumBytes(pwUtf8)) % 256

\* the key of an EncryptionHelper(passphrase, crypto, passphraseMode)
KeyOf(passphrase, passphraseMode) ==
    IF passphraseMode = "derive" THEN deriveBits(encode(passphrase))
    ELSE digest(encode(passphrase))

\* what encrypt returns, given the key and the random iv
encryptString(key, iv, data) ==
    toHexString(iv) \o <<"|">> \o toHexString(subtleEncrypt(key, iv, encode(data)))

\* the try block of decrypt.  threw: it threw; value: what it returned
decryptTry(key, data) ==
    LET parts == split(data)
        bytes == [i \in DOMAIN parts |-> fromHexString(parts[i])]
        iv == bytes[1][1]
        ciphertext == IF Len(parts) >= 2 THEN Some(bytes[2][1]) ELSE None
        decrypted == subtleDecrypt(key, iv, ciphertext)
    IN  IF \E i \in DOMAIN bytes : bytes[i] = None
        THEN [threw |-> TRUE, error |-> "TypeError", value |-> <<>>]
        ELSE IF ciphertext = None
        THEN [threw |-> TRUE, error |-> "TypeError", value |-> <<>>]
        ELSE IF decrypted = None
        THEN [threw |-> TRUE, error |-> "OperationError", value |-> <<>>]
        ELSE [threw |-> FALSE, error |-> "", value |-> decode(decrypted[1])]

\* catch (e): throw new DecryptionError(...)
decryptCatch(r) == IF r.threw THEN [r EXCEPT !.error = "DecryptionError"] ELSE r

decryptString(key, data) == decryptCatch(decryptTry(key, data))

\* new EncryptionHelper(passphrase, crypto, passphraseMode): keyPromise is
\* null.  derivations: how often the key derivation was started; calls: the
\* encrypt and decrypt calls made
NewHelper(passphrase, passphraseMode) ==
    [passphrase |-> passphrase, passphraseMode |-> passphraseMode, keyPromise |-> None,
     derivations |-> 0, calls |-> <<>>]

\* the derivation up to its first await
startDerivation(e) ==
    [e EXCEPT !.keyPromise = Some([pc |-> IF e.passphraseMode = "derive"
                                         THEN "importKey" ELSE "digest",
                                  pwUtf8 |-> encode(e.passphrase), keyMaterial |-> 0]),
              !.derivations = @ + 1]

\* only a key that is there is reused
getKeyWhenResolved(e) ==
    IF e.keyPromise # None /\ e.keyPromise[1].pc = "resolved" THEN e
    ELSE startDerivation(e)

\* getKey: if (this.keyPromise) return this.keyPromise; otherwise the
\* derivation is started and its promise is stored before anything else runs
getKey(e) == IF e.keyPromise # None THEN e ELSE startDerivation(e)

\* one await of the derivation has its answer
deriveStep(k) ==
    CASE k.pc = "importKey" -> [k EXCEPT !.pc = "deriveBits"]
      [] k.pc = "deriveBits" ->
            [k EXCEPT !.pc = "importAesKey", !.keyMaterial = deriveBits(k.pwUtf8)]
      [] k.pc = "digest" ->
            [k EXCEPT !.pc = "importAesKey", !.keyMaterial = digest(k.pwUtf8)]
      [] k.pc = "importAesKey" -> [k EXCEPT !.pc = "resolved"]

KeyPending(e) == e.keyPromise # None /\ e.keyPromise[1].pc # "resolved"

\* encrypt(data) or decrypt(data) up to `await this.getKey()`
CipherCall(op, data, origin) ==
    /\ Len(cipher.calls) < limit.cipher
    /\ cipher' = [getKey(cipher) EXCEPT
                     !.calls = Append(@, [op |-> op, data |-> data, origin |-> origin,
                                          pc |-> "getKey", shared |-> KeyPending(cipher),
                                          key |-> None, iv |-> None, result |-> None])]
    /\ UNCHANGED <<store, listener, changesHandler, subs, nextSub, chain, processingChain,
                   load, notes, lastPut, used, limit, lastRead, sync>>

\* an await of the key derivation is answered
Derive ==
    /\ KeyPending(cipher)
    /\ cipher' = [cipher EXCEPT !.keyPromise = Some(deriveStep(@[1]))]
    /\ UNCHANGED <<store, listener, changesHandler, subs, nextSub, chain, processingChain,
                   load, notes, lastPut, used, limit, lastRead, sync>>

Awaits(c, op) ==
    /\ c \in DOMAIN cipher.calls
    /\ cipher.calls[c].op = op
    /\ cipher.calls[c].pc = "getKey"
    /\ cipher.keyPromise # None
    /\ cipher.keyPromise[1].pc = "resolved"

\* the rest of encrypt, iv being what getRandomValues gave
EncryptReturn(c, iv) ==
    /\ Awaits(c, "encrypt")
    /\ LET key == cipher.keyPromise[1].keyMaterial
       IN  cipher' = [cipher EXCEPT
                         !.calls[c].pc = "done", !.calls[c].key = Some(key),
                         !.calls[c].iv = Some(iv),
                         !.calls[c].result =
                             Some([threw |-> FALSE, error |-> "",
                                   value |-> encryptString(key, iv, cipher.calls[c].data)])]
    /\ UNCHANGED <<store, listener, changesHandler, subs, nextSub, chain, processingChain,
                   load, notes, lastPut, used, limit, lastRead, sync>>

\* the rest of decrypt
DecryptReturn(c) ==
    /\ Awaits(c, "decrypt")
    /\ LET key == cipher.keyPromise[1].keyMaterial
       IN  cipher' = [cipher EXCEPT
                         !.calls[c].pc = "done", !.calls[c].key = Some(key),
                         !.calls[c].result =
                             Some(decryptString(key, cipher.calls[c].data))]
    /\ UNCHANGED <<store, listener, changesHandler, subs, nextSub, chain, processingChain,
                   load, notes, lastPut, used, limit, lastRead, sync>>

----------------------------------------------------------------------------

\* the calls a behaviour may make: puts, foreign writes, loadAlls, deletes,
\* reads (get, getAll), calls of the sync coordinator and events of its handles
Budget(p, f, l, d, r, s, e) ==
    [put |-> p, foreign |-> f, load |-> l, delete |-> d, read |-> r, sync |-> s,
     event |-> e]

\* this.syncHandler = null, this.remoteUrl = null; no handle, no call
NoSync ==
    [syncHandler |-> None, remoteUrl |-> None, handles |-> <<>>, calls |-> <<>>,
     log |-> <<>>, last |-> "none"]

InitOf(lim, listeners, stores) ==
    /\ store \in stores
    /\ listener \in listeners
    /\ changesHandler = None
    /\ subs = {}
    /\ nextSub = 0
    /\ chain = <<>>
    /\ processingChain = 0
    /\ load = IdleLoad
    /\ notes = <<>>
    /\ lastPut = None
    /\ used = [k \in DOMAIN lim |-> 0]
    /\ limit = lim
    /\ lastRead = None
    /\ sync = NoSync
    /\ cipher = NewHelper(<<"a">>, "derive")

\* a new database
InitWith(lim) == InitOf(lim, Listeners, {[id \in IdSet |-> {}]})

Writes ==
    \/ \E table \in Tables, d \in PutDocs, iv \in IVs :
         \E rev \in {None} \cup {Some(l[KRev]) : l \in store[FullId(table, d[KId])]} :
            Put(table, d, rev, iv)
    \/ \E w \in ForeignWrites : ForeignWrite(w)

Loads ==
    \/ LoadAllScan
    \/ LoadAllScanFails
    \/ LoadAllFinish

Handlers ==
    \/ \E k \in DOMAIN chain : HandleStart(k)
    \/ \E k \in DOMAIN chain : HandleDecrypted(k)
    \/ \E k \in DOMAIN chain : HandleConflicts(k)

(* The layer with its live change handling *)
Init == InitWith(Budget(MaxPut, MaxForeign, MaxLoad, 0, 0, 0, 0))

Next == Writes \/ Loads \/ Handlers

Spec == Init /\ [][Next]_vars

(* The layer with loadAll called again and with reconnect: puts to one      *)
(* table, no foreign writes, so no competing revisions                      *)
SubMaxPut == 2
SubMaxLoad == 2
SubMaxReconnect == 1

SubWrites ==
    \E d \in PutDocs, iv \in IVs :
        \E rev \in {None} \cup {Some(l[KRev]) : l \in store[FullId(<<"t">>, d[KId])]} :
            Put(<<"t">>, d, rev, iv)

SubHandlers ==
    \/ \E k \in DOMAIN chain : HandleStart(k)
    \/ \E k \in DOMAIN chain : HandleDecrypted(k)

InitSub ==
    InitWith(Budget(SubMaxPut, 0, SubMaxLoad, 0, 0, 0, 0)
                 @@ [reconnect |-> SubMaxReconnect])

NextSub == SubWrites \/ Loads \/ Reconnect \/ SubHandlers

SpecSub == InitSub /\ [][NextSub]_vars

\* the callbacks of the promise chain are run: the job queue is emptied
\* before the event loop goes on
SpecSubFair == SpecSub /\ WF_vars(SubHandlers)

(* The layer with deletes and with foreign records of every kind *)
OddWrite == \E w \in OddWrites : ForeignWrite(w)

Deletes ==
    \E id \in IdSet : parseFullId(id) # None
        /\ Delete(parseFullId(id)[1].table, parseFullId(id)[1].id)

InitOps == InitWith(Budget(OpsMaxPut, OpsMaxForeign, MaxLoad, OpsMaxDelete, 0, 0, 0))

NextOps == Writes \/ OddWrite \/ Deletes \/ Loads \/ Handlers

SpecOps == InitOps /\ [][NextOps]_vars

(* The layer over a store that holds system records *)
Puts ==
    \E table \in Tables, d \in PutDocs, iv \in IVs :
        \E rev \in {None} \cup {Some(l[KRev]) : l \in store[FullId(table, d[KId])]} :
            Put(table, d, rev, iv)

SysWrite == \E w \in SysWrites : ForeignWrite(w)

GetAlls == \E table \in {None, Some(<<"t">>)} : GetAll(table)

InitSys ==
    InitWith(Budget(SysMaxPut, SysMaxForeign, MaxLoad, SysMaxDelete, SysMaxRead, 0, 0))

\* only system records get competing revisions here, and their events end in
\* the first step of the handler
SysHandlers ==
    \/ \E k \in DOMAIN chain : HandleStart(k)
    \/ \E k \in DOMAIN chain : HandleDecrypted(k)

NextSys == Puts \/ SysWrite \/ Deletes \/ Loads \/ SysHandlers \/ GetAlls

SpecSys == InitSys /\ [][NextSys]_vars

(* Writes and reads of single records, without a live subscription *)
StalePuts ==
    \E table \in Tables, d \in PutDocs, iv \in IVs, rev \in StaleRevs :
        Put(table, d, Some(rev), iv)

Gets == \E table \in Tables, id \in {<<"x">>, <<"u", "_", "x">>} : Get(table, id)

InitRead ==
    InitWith(Budget(ReadMaxPut, ReadMaxForeign, 0, ReadMaxDelete, ReadMaxRead, 0, 0))

NextRead == StalePuts \/ Writes \/ OddWrite \/ Deletes \/ Gets

SpecRead == InitRead /\ [][NextRead]_vars

(* Bulk loads of a store that was written before: the change handlers that *)
(* are pending after the load are left out                                 *)
InitLoad == InitWith(Budget(LoadMaxPut, LoadMaxForeign, MaxLoad, 0, 0, 0, 0))

NextLoad == Writes \/ Loads

SpecLoad == InitLoad /\ [][NextLoad]_vars

(* Reads and resolutions of a record with competing revisions *)

\* the record IdT of a database that was written before: the revision of a
\* local put, and the revisions `foreign` that other writers left beside it
LeavesOf(foreign) ==
    {Spread(encryptDoc((KAmount :> "15"), IdT, Passphrase, 1), (KRev :> <<1, 1>>))}
    \cup {Spread(w.doc, (KRev :> ForeignRev(w.tag))) : w \in foreign}

\* no two revisions of one writer
ConflictStores ==
    {[id \in IdSet |-> IF id = IdT THEN LeavesOf(foreign) ELSE {}] :
        foreign \in {f \in SUBSET {w \in ForeignWrites : w.doc[KId] = IdT} :
                        \A v, w \in f : v.tag = w.tag => v = w}}

ConflictReads ==
    \E table \in Tables, id \in {<<"x">>, <<"u", "_", "x">>} :
        \/ GetConflictInfo(table, id)
        \/ Get(table, id)

InitConflict ==
    InitOf(Budget(ConflictMaxResolve, 0, 0, 0, ConflictMaxRead, 0, 0), Listeners,
           ConflictStores)

\* the documents a caller passes to resolveConflict: the decrypted winner or
\* a decrypted loser of the record, as a ConflictInfo has them, or a document
\* of his own without a revision
WinningDocs(leaves) ==
    {decryptDoc(l, Passphrase)[1] :
        l \in {k \in leaves : ~IsDeleted(k) /\ decryptDoc(k, Passphrase) # None}}
    \cup {(KId :> <<"x">>) @@ (KAmount :> "15")}

ResolveConflicts ==
    \E table \in Tables, id \in {<<"x">>}, iv \in IVs :
        \E winningDoc \in WinningDocs(store[FullId(table, id)]) :
            ResolveConflict(table, id, winningDoc, iv)

NextConflict == ConflictReads \/ ResolveConflicts

SpecConflict == InitConflict /\ [][NextConflict]_vars

(* Scans and reads of a database that holds records of every kind *)

\* what a database that was written before may hold under an identifier
LeavesAt(id) ==
    LET good == Spread(encryptDoc((KAmount :> "15"), id, Passphrase, 1), (KRev :> <<1, 1>>))
        other == Spread(encryptDoc((KAmount :> "15"), id, OtherPassphrase, 1),
                        (KRev :> <<1, 1>>))
        later == Spread(encryptDoc((KAmount :> "y"), id, Passphrase, 1), (KRev :> <<3, 2>>))
    IN  CASE id = IdDesign -> {{}, {(KId :> id) @@ (KD :> Garbage) @@ (KRev :> <<1, 0>>)}}
          [] id = IdTU -> {{}, {good}}
          [] id = IdT -> {{}, {good}, {good, later}, {other},
                          {(KId :> id) @@ (KRev :> <<1, 0>>)}}
          [] id = IdU -> {{}, {good}, {(KId :> id) @@ (KD :> Garbage) @@ (KRev :> <<1, 0>>)},
                          {(KId :> id) @@ (KDeleted :> "true") @@ (KRev :> <<2, 1>>)}}
          [] OTHER -> {{}, {good}}

ScanStores == {st \in [IdSet -> UNION {LeavesAt(id) : id \in IdSet}] :
                  \A id \in IdSet : st[id] \in LeavesAt(id)}

ScanReads ==
    \/ \E table \in {None, Some(<<"t">>), Some(<<"u">>), Some(<<"t", "_", "u">>)} :
         GetAll(table)
    \/ \E table \in {<<"t">>, <<"u">>}, id \in {<<"x">>, <<"u", "_", "x">>} :
         Get(table, id)

InitScan == InitOf(Budget(0, 0, 0, 0, ScanMaxRead, 0, 0), Listeners, ScanStores)

NextScan == ScanReads

SpecScan == InitScan /\ [][NextScan]_vars

(* The sync coordinator over a store with a few records *)
\* a database that was written before: the records `ids`, each at its first
\* revision, those of them that are design documents without a payload
StoreOf(ids) ==
    [id \in IdSet |->
        IF id \notin ids THEN {}
        ELSE IF StartsWithDesign(id) THEN {(KId :> id) @@ (KRev :> <<1, 0>>)}
        ELSE {Spread(encryptDoc((KAmount :> "15"), id, Passphrase, 1),
                     (KRev :> <<1, 1>>))}]

SyncStores == {StoreOf(ids) : ids \in {{IdDesign}, {IdT, IdDesign}, {IdT, IdU}}}

SyncCalls ==
    \/ \E url \in Urls : ConnectRemote(url)
    \/ DisconnectRemote
    \/ SyncNow
    \/ DeleteAllLocal
    \/ DeleteAllAndSync

SyncSteps ==
    \E c \in DOMAIN sync.calls :
        \/ DeleteAllLocalBulk(c)
        \/ DeleteAllAndSyncBulk(c)
        \/ DeleteAllAndSyncWait(c)
        \/ ConnectTimer(c)
        \/ DeleteTimer(c)

SyncEvents ==
    \E h \in DOMAIN sync.handles :
        \/ SyncActive(h)
        \/ \E info \in ChangeInfos : SyncChange(h, info)
        \/ SyncError(h)
        \/ \E info \in CompleteInfos : SyncComplete(h, info)

\* listeners of the coordinator: without onSync, with it, with one that throws
SyncListeners ==
    {[onError |-> FALSE, onConflict |-> FALSE, onSync |-> FALSE, throws |-> {}]}
    \cup {[onError |-> FALSE, onConflict |-> FALSE, onSync |-> TRUE, throws |-> t] :
              t \in {{}, {"onSync"}}}

InitSync ==
    InitOf(Budget(0, 0, 0, 0, 0, SyncMaxCall, SyncMaxEvent), SyncListeners, SyncStores)

NextSync == SyncCalls \/ SyncSteps \/ SyncEvents

SpecSync == InitSync /\ [][NextSync]_vars

(* A connection and a deleteAllAndSync over it, with more events *)
WaitCalls ==
    \/ \E url \in Urls : ConnectRemote(url)
    \/ DisconnectRemote
    \/ DeleteAllAndSync

WaitSteps ==
    \E c \in DOMAIN sync.calls :
        \/ DeleteAllAndSyncBulk(c)
        \/ DeleteAllAndSyncWait(c)
        \/ ConnectTimer(c)
        \/ DeleteTimer(c)

WaitEvents ==
    \E h \in DOMAIN sync.handles :
        \/ SyncActive(h)
        \/ \E info \in ChangeInfos : SyncChange(h, info)
        \/ SyncError(h)

InitWait ==
    InitOf(Budget(0, 0, 0, 0, 0, WaitMaxCall, WaitMaxEvent), SyncListeners, SyncStores)

NextWait == WaitCalls \/ WaitSteps \/ WaitEvents

SpecWait == InitWait /\ [][NextWait]_vars

\* an EncryptionHelper used on its own: encrypt and decrypt calls in any
\* interleaving with the awaits of the key derivation
CipherPassphrases == {<<"a">>, <<"b">>}

CipherModes == {"derive", "raw"}

\* what getRandomValues may give (two bytes stand for the twelve)
CipherIVs == {<<10, 171>>, <<7, 200>>}

CipherTexts == {<<>>, <<"a">>, <<"FEFF", "a">>, <<"a", "FEFF">>, <<"D800">>, <<"a", "b">>}

\* what became of a ciphertext string on its way back
Tamperings(c) ==
    {[how |-> "intact", data |-> c],
     [how |-> "changed", data |-> [c EXCEPT ![Len(c)] = IF @ = "0" THEN "1" ELSE "0"]],
     [how |-> "no separator", data |-> SelectSeq(c, LAMBDA ch : ch # "|")],
     [how |-> "no hex", data |-> [c EXCEPT ![1] = "g"]],
     [how |-> "appended", data |-> c \o <<"|", "g">>]}
    \cup (IF c[1] = "0"
          THEN {[how |-> "hex digit moved", data |-> <<c[2], "g">> \o SubSeq(c, 3, Len(c))]}
          ELSE {})

\* the strings given to decrypt, each with where it comes from: how it was
\* made, the plaintext and the passphrase and mode it was encrypted under
DecryptInputs(e) ==
    {[data |-> encryptString(KeyOf(e.passphrase, e.passphraseMode), iv, s),
      origin |-> [how |-> "intact", plain |-> s, passphrase |-> e.passphrase,
                  passphraseMode |-> e.passphraseMode]] :
        s \in CipherTexts, iv \in CipherIVs}
    \cup {[data |-> t.data,
           origin |-> [how |-> t.how, plain |-> <<"a">>, passphrase |-> e.passphrase,
                       passphraseMode |-> e.passphraseMode]] :
            t \in UNION {Tamperings(encryptString(KeyOf(e.passphrase, e.passphraseMode),
                                                  iv, <<"a">>)) : iv \in CipherIVs}}
    \cup {[data |-> encryptString(KeyOf(p, mode), <<10, 171>>, <<"a">>),
           origin |-> [how |-> "intact", plain |-> <<"a">>, passphrase |-> p,
                       passphraseMode |-> mode]] :
            p \in CipherPassphrases, mode \in CipherModes}
    \cup {[data |-> d,
           origin |-> [how |-> "written", plain |-> <<>>, passphrase |-> <<>>,
                       passphraseMode |-> ""]] :
            d \in {<<>>, <<"g">>, <<"|">>, <<"0", "a">>}}

CipherCalls ==
    \/ \E data \in CipherTexts :
         CipherCall("encrypt", data,
                    [how |-> "plain", plain |-> data, passphrase |-> cipher.passphrase,
                     passphraseMode |-> cipher.passphraseMode])
    \/ \E i \in DecryptInputs(cipher) : CipherCall("decrypt", i.data, i.origin)

CipherSteps ==
    \/ Derive
    \/ \E c \in DOMAIN cipher.calls, iv \in CipherIVs : EncryptReturn(c, iv)
    \/ \E c \in DOMAIN cipher.calls : DecryptReturn(c)

InitCipher ==
    /\ store = [id \in IdSet |-> {}]
    /\ listener \in {l \in Listeners : ~l.onError}
    /\ changesHandler = None
    /\ subs = {}
    /\ nextSub = 0
    /\ chain = <<>>
    /\ processingChain = 0
    /\ load = IdleLoad
    /\ notes = <<>>
    /\ lastPut = None
    /\ used = [k \in DOMAIN Budget(0, 0, 0, 0, 0, 0, 0) |-> 0]
    /\ limit = Budget(0, 0, 0, 0, 0, 0, 0) @@ [cipher |-> CipherMaxCall]
    /\ lastRead = None
    /\ sync = NoSync
    /\ cipher \in {NewHelper(p, mode) : p \in CipherPassphrases, mode \in CipherModes}

NextCipher == CipherCalls \/ CipherSteps

SpecCipher == InitCipher /\ [][NextCipher]_vars

\* identifiers on their own: a table and an id are joined as put joins them
\* and the result is taken apart as parseFullId does it
IdTokens == {"x", "y", "_"}

IdsUpTo(n) == UNION {[1..k -> IdTokens] : k \in 1..n}

IdTables == {<<"t">>, <<"u">>, <<"t", "u">>, <<"t", "_", "u">>, <<"t", "_">>}

IdPairs == {[table |-> t, id |-> i] : t \in IdTables, i \in IdsUpTo(MaxIdLen)}

\* the full identifier of (table, id), what parseFullId makes of it, and the
\* pairs whose record is the record of (table, id)
ParseFullId(table, id) ==
    /\ lastRead' = Some([op |-> "parseFullId", table |-> table, id |-> id,
                         fullId |-> FullId(table, id),
                         parsed |-> parseFullId(FullId(table, id)),
                         sharing |-> {p \in IdPairs :
                                         FullId(p.table, p.id) = FullId(table, id)}])
    /\ UNCHANGED <<store, listener, changesHandler, subs, nextSub, chain, processingChain,
                   load, notes, lastPut, used, limit, sync, cipher>>

InitIds == InitOf(Budget(0, 0, 0, 0, 0, 0, 0), {l \in Listeners : ~l.onError},
                  {[id \in IdSet |-> {}]})

NextIds == \E p \in IdPairs : ParseFullId(p.table, p.id)

SpecIds == InitIds /\ [][NextIds]_vars

----------------------------------------------------------------------------
(* Properties *)

IsLive(n) == n.src[1] = "live"

\* the callbacks invoked on behalf of `src`, in order
NotesOf(src) == SelectSeq(notes, LAMBDA n : n.src = src)

NotesOfCb(src, cb) == SelectSeq(notes, LAMBDA n : n.src = src /\ n.cb = cb)

Ran(k) == chain[k].out # ""

\* C1: the notifications of live change events are delivered in the order in
\* which the events were appended: once a notification of event k is
\* delivered, none of an earlier event follows
C1_EmissionOrder ==
    \A i \in DOMAIN notes : \A j \in DOMAIN notes :
        (i < j /\ IsLive(notes[i]) /\ IsLive(notes[j]))
            => notes[i].src[2] <= notes[j].src[2]

\* two events have both delivered notifications, the first of them after its
\* decryption (and conflict lookup) had been awaited
C1_Witness ==
    \E i \in DOMAIN notes : \E j \in DOMAIN notes :
        /\ i < j /\ IsLive(notes[i]) /\ IsLive(notes[j])
        /\ notes[i].src[2] < notes[j].src[2]
        /\ notes[i].cb = "onChange"
        /\ Settled(notes[j].src[2])

\* C2: at most one handleChange is executing: while the handler of an event is
\* running, the handlers of all events appended before it have settled and
\* none appended after it has begun
C2_OneHandlerAtATime ==
    \A k \in DOMAIN chain :
        chain[k].st = "running" =>
            /\ \A j \in 1..(k - 1) : Settled(j)
            /\ \A j \in (k + 1)..Len(chain) : chain[j].st = "pending"

\* a handler is suspended in its conflict lookup while a later event waits
C2_Witness ==
    \E k \in DOMAIN chain :
        /\ chain[k].st = "running" /\ chain[k].pc = "conflict"
        /\ k < Len(chain) /\ chain[k + 1].st = "pending"

\* C3: a failure of one event's processing never leaves the tail rejected or
\* stuck: no promise of the tail is rejected, and every promise that has
\* settled ran its handler
C3_TailContinues ==
    \A k \in DOMAIN chain :
        /\ chain[k].st # "rejected"
        /\ Settled(k) => Ran(k)

\* handleChange threw for one event, and a later event was processed
C3_Witness ==
    \E j \in DOMAIN chain : \E k \in DOMAIN chain :
        /\ j < k
        /\ chain[j].out = "rejected"
        /\ chain[k].st = "fulfilled" /\ Ran(k)
        /\ Len(NotesOf(Live(k))) > 0

UserKeys(doc) == {k \in DOMAIN doc : ~StartsWithUnderscore(k)}

UserData(doc) == Restrict(doc, UserKeys(doc))

\* a stored object shows nothing but metadata fields and the ciphertext d
OnlyMetadataAndCipher(rec) ==
    /\ \A k \in DOMAIN rec : k = KD \/ StartsWithUnderscore(k)
    /\ KD \in DOMAIN rec => rec[KD].kind \in {"cipher", "garbage"}

NoSeparator(s) == IndexOf(s, "_") = 0

\* get right after the last put returned its document: logical id, the
\* revision of that write, and the document's user data
RoundTrip(p) ==
    LET got == get(store, p.table, p.doc[KId], <<"get", 0>>).ret
    IN  /\ got # None
        /\ got[1][KId] = p.doc[KId]
        /\ got[1][KRev] = p.ret[KRev]
        /\ UserData(got[1]) = UserData(p.doc)

\* C5 as stated: for a table name without the separator, get after a
\* successful put returns the logical id, the revision of the write and
\* exactly the user-data fields of the document
C5_RoundTripAsStated ==
    (lastPut # None /\ lastPut[1].ok /\ NoSeparator(lastPut[1].table))
        => RoundTrip(lastPut[1])

\* every user-data value is one that JSON.stringify and JSON.parse give back
JSONSafe(doc) == JSONStringify(UserData(doc)) = UserData(doc)

\* C5, amended: the round trip holds for a document whose user-data values
\* survive JSON serialization and that is not marked _deleted, when the
\* record is left without competing revisions
C5_RoundTrip ==
    (/\ lastPut # None
     /\ lastPut[1].ok
     /\ NoSeparator(lastPut[1].table)
     /\ JSONSafe(lastPut[1].doc)
     /\ ~IsDeleted(lastPut[1].doc)
     /\ ConflictRevs(store[lastPut[1].sent[KId]]) = <<>>)
        => RoundTrip(lastPut[1])

\* such a put has succeeded, as an update of an earlier revision
C5_Witness ==
    /\ lastPut # None
    /\ lastPut[1].ok
    /\ NoSeparator(lastPut[1].table)
    /\ JSONSafe(lastPut[1].doc)
    /\ ~IsDeleted(lastPut[1].doc)
    /\ ConflictRevs(store[lastPut[1].sent[KId]]) = <<>>
    /\ KRev \in DOMAIN lastPut[1].doc
    /\ RoundTrip(lastPut[1])

----------------------------------------------------------------------------
(* Properties of loadAll.  They are stated of the load that has returned:   *)
(* its rows are the snapshot allDocs gave it.                               *)

LoadDone == load.pc = "done" /\ load.scanned

HasPayload(row) == ~StartsWithDesign(row.id) /\ KD \in DOMAIN row.doc

Decryptable(row) == HasPayload(row) /\ decryptDoc(row.doc, Passphrase) # None

DecryptableRows == {i \in DOMAIN load.rows : Decryptable(load.rows[i])}

TablesOfRows == {parseFullId(load.rows[i].id)[1].table : i \in DecryptableRows}

RECURSIVE SumOfDocs(_)
SumOfDocs(batches) ==
    IF batches = <<>> THEN 0 ELSE Len(Head(batches).docs) + SumOfDocs(Tail(batches))

LoadNotes(cb) == NotesOfCb(LoadSrc(load.n), cb)

TimesInBatches(row) ==
    Cardinality({<<b, j>> \in (DOMAIN load.acc.docsByTable) \X (1..Len(load.rows)) :
        /\ j <= Len(load.acc.docsByTable[b].docs)
        /\ load.acc.docsByTable[b].docs[j][KRev] = row.doc[KRev]
        /\ FullId(load.acc.docsByTable[b].table, load.acc.docsByTable[b].docs[j][KId])
              = row.id})

TimesInErrors(row) ==
    Cardinality({e \in DOMAIN load.acc.errors :
        load.acc.errors[e].docId = row.id /\ load.acc.errors[e].at = None})

\* C7 as stated: every record with a payload ends up in exactly one place, in
\* its table's batch when it decrypts and else as one DecryptionErrorEvent
\* with its identifier and raw record
C7_ExactlyOnePlace ==
    LoadDone =>
        \A i \in DOMAIN load.rows :
            HasPayload(load.rows[i]) =>
                IF Decryptable(load.rows[i])
                THEN /\ TimesInBatches(load.rows[i]) = 1
                     /\ TimesInErrors(load.rows[i]) = 0
                ELSE /\ TimesInBatches(load.rows[i]) = 0
                     /\ TimesInErrors(load.rows[i]) = 1
                     /\ \E e \in DOMAIN load.acc.errors :
                           /\ load.acc.errors[e].docId = load.rows[i].id
                           /\ load.acc.errors[e].rawDoc = load.rows[i].doc

\* C8 as stated (for a listener none of whose callbacks throws): a loadAll
\* delivers one onError, carrying all its errors, if an error occurred and
\* the listener is registered, and none otherwise; and likewise one onConflict
C8_OneErrorOneConflict ==
    (LoadDone /\ listener.throws = {}) =>
        LET errs == LoadNotes("onError")
            confs == LoadNotes("onConflict")
        IN  /\ Len(errs) <= 1
            /\ (listener.onError /\ Len(load.acc.errors) > 0) => Len(errs) = 1
            /\ ~listener.onError => Len(errs) = 0
            /\ Len(confs) <= 1
            /\ Len(confs) = 1 <=> (listener.onConflict /\ Len(load.acc.conflicts) > 0)
            /\ Len(confs) = 1 => confs[1].arg = load.acc.conflicts

----------------------------------------------------------------------------
(* Properties of a put under a live subscription.                           *)

\* the entries of the chain that stem from a successful put announced to one
\* subscription, whose handler has run
PutEvents ==
    {k \in DOMAIN chain : chain[k].of.put /\ chain[k].of.subs = 1 /\ Ran(k)}

\* the one notification of event k is an onChange with the one batch of the
\* table written to, holding the document written
OneChangeOfWritten(k) ==
    LET changes == NotesOfCb(Live(k), "onChange")
        of == chain[k].of
    IN  /\ Len(changes) = 1
        /\ Len(changes[1].arg) = 1
        /\ changes[1].arg[1].table = of.table
        /\ Len(changes[1].arg[1].docs) = 1
        /\ changes[1].arg[1].docs[1][KId] = of.doc[KId]
        /\ changes[1].arg[1].docs[1][KRev] = of.rev
        /\ UserData(changes[1].arg[1].docs[1]) = JSONStringify(UserData(of.doc))

NoCallbackThrew(k) ==
    \A i \in DOMAIN NotesOf(Live(k)) : ~Throws(NotesOf(Live(k))[i].cb)

----------------------------------------------------------------------------
(* Properties of the single live change.                                    *)

\* the change is a deletion: the flag is set, or the record has no payload
IsDeletion(change) == change.deleted \/ KD \notin DOMAIN change.doc

\* the handler of event k delivered one onDelete and nothing else: one batch
\* with one reference, which holds the logical id and no other field
OneDeleteOnly(k) ==
    LET called == NotesOf(Live(k))
    IN  /\ Len(called) = 1
        /\ called[1].cb = "onDelete"
        /\ Len(called[1].arg) = 1
        /\ Len(called[1].arg[1].docs) = 1
        /\ DOMAIN called[1].arg[1].docs[1] = {KId}
        /\ FullId(called[1].arg[1].table, called[1].arg[1].docs[1][KId])
              = chain[k].change.id

\* C11 as stated (of the records that are not system records): every live
\* change that is a deletion yields one onDelete with one reference and no
\* other notification
C11_EveryDeletionOneDelete ==
    \A k \in DOMAIN chain :
        (Ran(k) /\ IsDeletion(chain[k].change) /\ ~StartsWithDesign(chain[k].change.id))
            => OneDeleteOnly(k)

\* C11, amended: so it is when the identifier of the record holds the
\* separator, so that it names a table and a logical id
C11_DeletionOneDelete ==
    \A k \in DOMAIN chain :
        (/\ Ran(k)
         /\ IsDeletion(chain[k].change)
         /\ ~StartsWithDesign(chain[k].change.id)
         /\ parseFullId(chain[k].change.id) # None)
            => OneDeleteOnly(k)

\* the handler of the live change of a delete() has run, and that of a
\* record that arrived without a payload
C11_Witness ==
    /\ \E k \in DOMAIN chain :
          Ran(k) /\ chain[k].change.deleted /\ OneDeleteOnly(k)
    /\ \E k \in DOMAIN chain :
          /\ Ran(k) /\ ~chain[k].change.deleted
          /\ KD \notin DOMAIN chain[k].change.doc
          /\ OneDeleteOnly(k)

\* the change is an upsert of a record that does not decrypt
IsFailedUpsert(change) ==
    /\ ~StartsWithDesign(change.id)
    /\ ~IsDeletion(change)
    /\ decryptDoc(change.doc, Passphrase) = None

\* C12: a live upsert whose record fails to decrypt yields one onError with
\* the one DecryptionErrorEvent of that record (given that onError is
\* registered) and no onChange, and its link of the chain is fulfilled, so
\* that the later events are processed
C12_FailedUpsertOneError ==
    \A k \in DOMAIN chain :
        (Ran(k) /\ IsFailedUpsert(chain[k].change)) =>
            /\ NotesOfCb(Live(k), "onChange") = <<>>
            /\ NotesOf(Live(k)) =
                  IF listener.onError
                  THEN <<Note("onError", Live(k),
                              <<ErrEv(chain[k].change.id, None,
                                      decryptDocError(chain[k].change.doc),
                                      chain[k].change.doc)>>)>>
                  ELSE <<>>
            /\ chain[k].st = "fulfilled"

\* such an upsert was reported to an onError that threw, and the handler of
\* a later event has run
C12_Witness ==
    \E k \in DOMAIN chain : \E j \in DOMAIN chain :
        /\ Ran(k) /\ IsFailedUpsert(chain[k].change)
        /\ Len(NotesOfCb(Live(k), "onError")) = 1
        /\ Throws("onError")
        /\ k < j /\ Ran(j)

----------------------------------------------------------------------------
(* Properties of system records.                                            *)

\* the notification is about the record `id`: it is in one of its batches,
\* or one of its error events or conflicts is of it
NoteConcerns(n, id) ==
    IF n.cb \in {"onChange", "onDelete"}
    THEN \E b \in DOMAIN n.arg : \E j \in DOMAIN n.arg[b].docs :
            FullId(n.arg[b].table, n.arg[b].docs[j][KId]) = id
    ELSE \E e \in DOMAIN n.arg : n.arg[e].docId = id

\* C13: no notification is about a record with the '_design/' prefix, the
\* handler of a live change of such a record (a deletion too) delivers
\* nothing, and getAll does not return it
C13_SystemRecordsIgnored ==
    /\ \A i \in DOMAIN notes : ~NoteConcerns(notes[i], IdDesign)
    /\ \A k \in DOMAIN chain :
          (Ran(k) /\ StartsWithDesign(chain[k].change.id)) => NotesOf(Live(k)) = <<>>
    /\ (lastRead # None /\ lastRead[1].op = "getAll") =>
          \A j \in DOMAIN lastRead[1].ret :
              lastRead[1].ret[j][KId] # parseFullId(IdDesign)[1].id

\* a system record with a payload was in the store at a loadAll and at a
\* getAll of all tables, and the live change of its deletion was handled
C13_Witness ==
    /\ load.pc = "done"
    /\ \E i \in DOMAIN load.rows :
          load.rows[i].id = IdDesign /\ KD \in DOMAIN load.rows[i].doc
    /\ lastRead # None /\ lastRead[1].op = "getAll" /\ lastRead[1].table = None
    /\ \E k \in DOMAIN chain :
          Ran(k) /\ chain[k].change.id = IdDesign /\ chain[k].change.deleted

----------------------------------------------------------------------------
(* Properties of put and get on a single record.                            *)

\* the last put carried a revision token that no revision of the record has
PutWasStale(p) ==
    KRev \in DOMAIN p.doc /\ \A l \in p.before : l[KRev] # p.doc[KRev]

\* the last put carried the token of the record's winning revision
PutWasCurrent(p) ==
    KRev \in DOMAIN p.doc /\ p.before # {} /\ Winner(p.before)[KRev] = p.doc[KRev]

----------------------------------------------------------------------------
(* get on a record the store does not have                                   *)

\* C15: get never throws, and for a (table, id) whose record was never
\* written or has been deleted it returns none
C15_GetNeverThrows ==
    (lastRead # None /\ lastRead[1].op = "get") =>
        /\ ~lastRead[1].threw
        /\ ~lastRead[1].found => lastRead[1].ret = None

\* a get of a record that was written through put and then deleted came
\* back with none
C15_Witness ==
    /\ lastRead # None
    /\ lastRead[1].op = "get"
    /\ ~lastRead[1].found
    /\ ~lastRead[1].threw
    /\ lastRead[1].ret = None
    /\ LET leaves == store[FullId(lastRead[1].table[1], lastRead[1].id[1])]
       IN  /\ \E l \in leaves : l[KRev] = <<2, 1>>
           /\ \A l \in leaves : IsDeleted(l)

----------------------------------------------------------------------------
(* The sync coordinator *)

SyncCall(c) == sync.calls[c]

\* no remote connection: connectRemote was never called, or disconnectRemote
\* or deleteAllLocal was called since
NoConnection(call) == call.after \in {"none", "disconnectRemote", "deleteAllLocal"}

\* the records of the store that are not system records, when `call` was made
NonSystem(call) == {id \in call.records : ~StartsWithDesign(id)}

\* the handles that carry a listener which is a closure of the call c
ListenersOf(c) ==
    {h \in DOMAIN sync.handles :
        \E i \in DOMAIN sync.handles[h].listeners : sync.handles[h].listeners[i].call = c}

\* C16: without a remote connection syncNow and deleteAllAndSync reject with
\* their not-connected error, and read, delete and sync nothing
C16_NotConnectedRejects ==
    \A c \in DOMAIN sync.calls :
        (SyncCall(c).op \in {"syncNow", "deleteAllAndSync"} /\ NoConnection(SyncCall(c))) =>
            /\ SyncCall(c).pc = "rejected"
            /\ SyncCall(c).error = Some(IF SyncCall(c).op = "syncNow"
                                        THEN ErrNoRemote ELSE ErrSyncNotConnected)
            /\ ~SyncCall(c).read
            /\ ~SyncCall(c).bulk
            /\ SyncCall(c).handle = None
            /\ ~SyncCall(c).timer
            /\ ListenersOf(c) = {}

\* a syncNow was rejected that was called after a connection had been made
\* and taken down again with disconnectRemote, over a store with records
C16_Witness ==
    \E c \in DOMAIN sync.calls :
        /\ SyncCall(c).op = "syncNow"
        /\ SyncCall(c).after = "disconnectRemote"
        /\ SyncCall(c).pc = "rejected"
        /\ NonSystem(SyncCall(c)) # {}
        /\ \E h \in DOMAIN sync.handles : sync.handles[h].cancelled

\* C17: deleteAllAndSync with a sync handle and no record but system records
\* is resolved at once, without a bulk delete, a listener or a timer
C17_NothingToDelete ==
    \A c \in DOMAIN sync.calls :
        (/\ SyncCall(c).op = "deleteAllAndSync"
         /\ SyncCall(c).held # None
         /\ NonSystem(SyncCall(c)) = {}) =>
            /\ SyncCall(c).pc = "resolved"
            /\ ~SyncCall(c).bulk
            /\ SyncCall(c).handle = None
            /\ ~SyncCall(c).timer
            /\ ListenersOf(c) = {}

\* a deleteAllAndSync over a connection and a store that holds a design
\* document only is resolved, and the design document is still there
C17_Witness ==
    \E c \in DOMAIN sync.calls :
        /\ SyncCall(c).op = "deleteAllAndSync"
        /\ SyncCall(c).held # None
        /\ SyncCall(c).records = {IdDesign}
        /\ SyncCall(c).pc = "resolved"
        /\ Exists(store, IdDesign)

\* what the handle and the timer of the call c have signalled since the call
\* began to wait
Since(c) == SubSeq(sync.log, SyncCall(c).at + 1, Len(sync.log))

IsTimer(e, c) == e.ev = "timer" /\ e.info = c

IsOn(e, c, ev) == e.ev = ev /\ SyncCall(c).handle = Some(e.h)

IsPush(e, c) == IsOn(e, c, "change") /\ e.info.direction = "push"

\* the written count that the push events among the first n signals reported
RECURSIVE PushSum(_, _, _)
PushSum(log, c, n) ==
    IF n = 0 THEN 0
    ELSE PushSum(log, c, n - 1) + (IF IsPush(log[n], c) THEN log[n].info.docs_written ELSE 0)

\* the wait of a deleteAllAndSync is decided by the i-th signal: its timer,
\* an error of its handle, or the push that brings the count to N
DeleteDecides(log, c, i) ==
    \/ IsTimer(log[i], c)
    \/ IsOn(log[i], c, "error")
    \/ PushSum(log, c, i) >= Cardinality(NonSystem(SyncCall(c)))

\* C18: deleteAllAndSync with a sync handle over N > 0 records deletes all
\* N; it is not resolved before push events have reported N written records,
\* pull events not counted; the timer or a sync error that comes before that
\* rejects it, with the timeout error or the error of the handle
C18_DeleteAllAndSyncWaits ==
    \A c \in DOMAIN sync.calls :
        (/\ SyncCall(c).op = "deleteAllAndSync"
         /\ SyncCall(c).held # None
         /\ NonSystem(SyncCall(c)) # {}) =>
            LET log == Since(c)
                N == Cardinality(NonSystem(SyncCall(c)))
                undecided(i) == \A j \in 1 .. i - 1 : ~DeleteDecides(log, c, j)
            IN  /\ SyncCall(c).pc # "bulkDocs" =>
                    /\ SyncCall(c).bulk
                    /\ \A id \in NonSystem(SyncCall(c)) : ~Exists(store, id)
                /\ SyncCall(c).pc = "resolved" =>
                    \E i \in DOMAIN log :
                        /\ undecided(i)
                        /\ ~IsTimer(log[i], c)
                        /\ ~IsOn(log[i], c, "error")
                        /\ PushSum(log, c, i) >= N
                /\ SyncCall(c).handle # None =>
                    \A i \in DOMAIN log :
                        /\ (undecided(i) /\ IsTimer(log[i], c)) =>
                              /\ SyncCall(c).pc = "rejected"
                              /\ SyncCall(c).error = Some(ErrTimeout)
                        /\ (undecided(i) /\ IsOn(log[i], c, "error")) =>
                              /\ SyncCall(c).pc = "rejected"
                              /\ SyncCall(c).error = Some(ErrSync)

\* a deleteAllAndSync over two records was resolved by the second of two
\* push events of one record each, with a pull event of two between them
C18_Witness ==
    \E c \in DOMAIN sync.calls :
        /\ SyncCall(c).op = "deleteAllAndSync"
        /\ Cardinality(NonSystem(SyncCall(c))) = 2
        /\ SyncCall(c).pc = "resolved"
        /\ Len(Since(c)) = 3
        /\ IsPush(Since(c)[1], c) /\ Since(c)[1].info.docs_written = 1
        /\ IsOn(Since(c)[2], c, "change") /\ Since(c)[2].info.direction = "pull"
        /\ IsPush(Since(c)[3], c) /\ Since(c)[3].info.docs_written = 1

\* the wait of a connectRemote is decided by the i-th signal
ConnectDecides(log, c, i) ==
    IsTimer(log[i], c) \/ IsOn(log[i], c, "active") \/ IsOn(log[i], c, "error")

\* C19: connectRemote is resolved by the first 'active' of its handle or by
\* its timer, is rejected if and only if an error of the handle came before
\* both, and later signals change nothing
C19_ConnectSettles ==
    \A c \in DOMAIN sync.calls :
        SyncCall(c).op = "connectRemote" =>
            LET log == Since(c)
                decided == {i \in DOMAIN log : ConnectDecides(log, c, i)}
                first == CHOOSE i \in decided : \A j \in decided : i <= j
            IN  IF decided = {} THEN SyncCall(c).pc = "wait"
                ELSE IF IsOn(log[first], c, "error")
                THEN SyncCall(c).pc = "rejected" /\ SyncCall(c).error = Some(ErrSync)
                ELSE SyncCall(c).pc = "resolved" /\ SyncCall(c).error = None

\* a connectRemote was resolved by its timer, and its handle reported an
\* error after that
C19_Witness ==
    \E c \in DOMAIN sync.calls :
        /\ SyncCall(c).op = "connectRemote"
        /\ SyncCall(c).pc = "resolved"
        /\ Len(Since(c)) >= 2
        /\ IsTimer(Since(c)[1], c)
        /\ IsOn(Since(c)[2], c, "error")

\* the handles of connectRemote that were not cancelled
OpenHandles ==
    {h \in DOMAIN sync.handles :
        sync.handles[h].kind = "sync" /\ ~sync.handles[h].cancelled}

\* C20: at most one handle of connectRemote is not cancelled, and it is the
\* one the coordinator holds; after disconnectRemote or deleteAllLocal there
\* is no handle and no remote URL
C20_OneHandle ==
    /\ Cardinality(OpenHandles) <= 1
    /\ OpenHandles = {sync.syncHandler[i] : i \in DOMAIN sync.syncHandler}
    /\ sync.last \in {"none", "disconnectRemote", "deleteAllLocal"} =>
          sync.syncHandler = None /\ sync.remoteUrl = None

\* a second connectRemote has cancelled the handle of the first and holds
\* its own
C20_Witness ==
    /\ Len(sync.handles) = 2
    /\ sync.handles[1].kind = "sync" /\ sync.handles[1].cancelled
    /\ sync.handles[2].kind = "sync" /\ ~sync.handles[2].cancelled
    /\ sync.syncHandler = Some(2)

----------------------------------------------------------------------------
(* syncNow over a connection *)

\* the calls of syncNow that passed the guard and opened a one-shot sync
SyncNowCalls ==
    {c \in DOMAIN sync.calls : SyncCall(c).op = "syncNow" /\ SyncCall(c).handle # None}

\* the onSync notifications of the one-shot sync of the call c, in order
SyncNotes(c) == NotesOfCb(<<"sync", SyncCall(c).handle[1]>>, "onSync")

\* what the 'complete' event of the call c carried, when there was one
Completions(c) ==
    {Since(c)[i].info : i \in {j \in DOMAIN Since(c) : IsOn(Since(c)[j], c, "complete")}}

Reported(info, direction) == IF direction = "push" THEN info.push ELSE info.pull

\* the notifications are at most one of push followed by at most one of
\* pull, each with the count its direction reported, none without a
\* 'complete'; an error of the one-shot sync rejects the promise
SyncNowOrderly(c) ==
    LET n == SyncNotes(c)
    IN  /\ [i \in DOMAIN n |-> n[i].arg.direction]
              \in {<<>>, <<"push">>, <<"pull">>, <<"push", "pull">>}
        /\ \A i \in DOMAIN n :
              \E info \in Completions(c) :
                  Reported(info, n[i].arg.direction) = Some(n[i].arg.docs_written)
        /\ SyncCall(c).pc = "resolved" =>
              /\ Completions(c) # {}
              /\ listener.onSync =>
                    \A info \in Completions(c) :
                        Len(n) = Cardinality({d \in {"push", "pull"} :
                                                 Reported(info, d) # None})
        /\ (\E i \in DOMAIN Since(c) : IsOn(Since(c)[i], c, "error")) =>
              SyncCall(c).pc = "rejected" /\ SyncCall(c).error = Some(ErrSync)

\* C21 as stated: a direction is notified only if it reported write activity
C21_OnlyWrittenDirections ==
    \A c \in SyncNowCalls :
        /\ SyncNowOrderly(c)
        /\ \A i \in DOMAIN SyncNotes(c) : SyncNotes(c)[i].arg.docs_written > 0

\* C21: a syncNow that completes delivers at most two onSync notifications,
\* push before pull, one for each direction whose written count is defined
\* (zero included), all of them before its promise resolves; an error of the
\* sync rejects the promise
C21_SyncNowNotifies == \A c \in SyncNowCalls : SyncNowOrderly(c)

\* a syncNow was resolved after it had delivered the push statistics, with
\* nothing written, and then the pull statistics
C21_Witness ==
    \E c \in SyncNowCalls :
        /\ SyncCall(c).pc = "resolved"
        /\ Len(SyncNotes(c)) = 2
        /\ SyncNotes(c)[1].arg = [direction |-> "push", docs_written |-> 0]
        /\ SyncNotes(c)[2].arg = [direction |-> "pull", docs_written |-> 1]

\* the one-shot sync completed and reported zero written documents in both
\* directions
NothingTransferred(c) == [push |-> Some(0), pull |-> Some(0)] \in Completions(c)

\* C22: with onSync registered, a syncNow over a connection that completes
\* without a document transferred in either direction invokes onSync
C22_OnSyncWithoutChanges ==
    \A c \in SyncNowCalls :
        (listener.onSync /\ NothingTransferred(c)) => Len(SyncNotes(c)) >= 1

\* a syncNow that transferred nothing was resolved with onSync invoked for
\* both directions
C22_Witness ==
    \E c \in SyncNowCalls :
        /\ listener.onSync
        /\ NothingTransferred(c)
        /\ SyncCall(c).pc = "resolved"
        /\ Len(SyncNotes(c)) = 2
        /\ \A i \in 1 .. 2 : SyncNotes(c)[i].arg.docs_written = 0

----------------------------------------------------------------------------
(* deleteAllLocal *)

\* connectRemote was not called after the call c was made
NoConnectSince(c) ==
    \A d \in DOMAIN sync.calls : d > c => SyncCall(d).op # "connectRemote"

\* C23: deleteAllLocal has cancelled the sync and cleared the remote URL
\* before its deletions are issued, so that no sync of this instance can push
\* them; it deletes every record that is not a system record, leaves the
\* system records, and leaves the coordinator disconnected
C23_DeletionsStayLocal ==
    \A c \in DOMAIN sync.calls :
        (SyncCall(c).op = "deleteAllLocal" /\ NoConnectSince(c)) =>
            /\ sync.syncHandler = None
            /\ sync.remoteUrl = None
            /\ SyncCall(c).held # None => sync.handles[SyncCall(c).held[1]].cancelled
            /\ SyncCall(c).pc = "resolved" =>
                  /\ SyncCall(c).open = {}
                  /\ \A id \in SyncCall(c).records :
                        Exists(store, id) <=> StartsWithDesign(id)

----------------------------------------------------------------------------
(* Conflict information *)

IsConflictRead == lastRead # None /\ lastRead[1].op = "getConflictInfo"

\* C24: getConflictInfo never throws, returns none for a record that does
\* not exist or has no competing revisions, and never calls onConflict
C24_GetConflictInfoQuiet ==
    IsConflictRead =>
        /\ ~lastRead[1].threw
        /\ (~lastRead[1].found \/ ConflictRevs(lastRead[1].leaves) = <<>>) =>
              lastRead[1].ret = None
        /\ NotesOfCb(lastRead[1].src, "onConflict") = <<>>

\* getConflictInfo returned the information of a record with competing
\* revisions, and the registered onConflict was not called
C24_Witness ==
    /\ IsConflictRead
    /\ listener.onConflict
    /\ lastRead[1].ret # None
    /\ Len(lastRead[1].ret[1].conflictRevs) = 2
    /\ NotesOfCb(lastRead[1].src, "onConflict") = <<>>

\* the leaf of a revision
LeafOf(leaves, rev) == CHOOSE l \in leaves : l[KRev] = rev

\* the revision can be fetched and decrypted
Recoverable(leaves, rev) ==
    /\ \E l \in leaves : l[KRev] = rev
    /\ decryptDoc(LeafOf(leaves, rev), Passphrase) # None

\* the decrypted documents of the recoverable ones among revs, in order
RECURSIVE LosersOf(_, _)
LosersOf(leaves, revs) ==
    IF revs = <<>> THEN <<>>
    ELSE (IF Recoverable(leaves, Head(revs))
          THEN <<decryptDoc(LeafOf(leaves, Head(revs)), Passphrase)[1]>> ELSE <<>>)
         \o LosersOf(leaves, Tail(revs))

\* what buildConflictInfo owes for a record with the leaves `leaves`: it
\* does not throw, its result has the winner, the current revision, all
\* competing revisions and the recoverable losers, and the revisions that
\* are not recoverable are reported in one onError, when onError is registered
BuiltAsOwed(leaves, b, src) ==
    LET revs == ConflictRevs(leaves)
        failing == SelectSeq(revs, LAMBDA rev : ~Recoverable(leaves, rev))
        errs == NotesOfCb(src, "onError")
    IN  /\ ~b.threw
        /\ b.info.winner = decryptDoc(Winner(leaves), Passphrase)[1]
        /\ b.info.currentRev = Winner(leaves)[KRev]
        /\ b.info.conflictRevs = revs
        /\ b.info.losers = LosersOf(leaves, revs)
        /\ IF failing # <<>> /\ listener.onError
           THEN /\ Len(errs) = 1
                /\ [i \in DOMAIN errs[1].arg |-> errs[1].arg[i].at]
                      = [i \in DOMAIN failing |-> Some(failing[i])]
           ELSE errs = <<>>

\* C25: building the ConflictInfo of a record with M competing revisions, L
\* of them recoverable, never fails: the result has the winner, the current
\* revision, the M revision tokens and the L losers in order, and the M - L
\* failures go to the error channel and are not thrown
C25_BuildNeverFails ==
    (IsConflictRead /\ lastRead[1].built # None) =>
        BuiltAsOwed(lastRead[1].leaves, lastRead[1].built[1], lastRead[1].src)

\* the same with listeners whose callbacks return
C25_BuildWithQuietListener ==
    (IsConflictRead /\ lastRead[1].built # None /\ listener.throws = {}) =>
        BuiltAsOwed(lastRead[1].leaves, lastRead[1].built[1], lastRead[1].src)

\* a ConflictInfo was built for two competing revisions of which one was
\* recoverable
C25_Witness ==
    /\ IsConflictRead
    /\ lastRead[1].built # None
    /\ ~lastRead[1].built[1].threw
    /\ Len(lastRead[1].built[1].info.conflictRevs) = 2
    /\ Len(lastRead[1].built[1].info.losers) = 1
    /\ Len(NotesOfCb(lastRead[1].src, "onError")) = 1

IsResolve == lastPut # None /\ "op" \in DOMAIN lastPut[1]

\* C26: resolveConflict writes the winning document through put first; when
\* that went through it tries to delete every competing revision the record
\* had, in order, whether or not an earlier deletion failed, and resolves
C26_BestEffortCleanup ==
    IsResolve =>
        LET r == lastPut[1]
        IN  IF r.put
            THEN /\ Spread(r.sent, (KRev :> r.rev)) \in r.afterPut
                 /\ r.conflicts = ConflictRevs(r.before)
                 /\ [i \in DOMAIN r.attempts |-> r.attempts[i].rev] = r.conflicts
                 /\ \A i \in DOMAIN r.attempts :
                       r.attempts[i].ok =>
                           \A l \in store[FullId(r.table, r.id)] :
                               l[KRev] # r.attempts[i].rev
                 /\ r.ok /\ r.error = None
            ELSE /\ ~r.ok
                 /\ r.attempts = <<>>
                 /\ store[FullId(r.table, r.id)] = r.before

\* a resolveConflict resolved whose first deletion failed and whose second
\* deletion went through
C26_Witness ==
    /\ IsResolve
    /\ lastPut[1].ok
    /\ Len(lastPut[1].attempts) = 2
    /\ ~lastPut[1].attempts[1].ok
    /\ lastPut[1].attempts[2].ok

----------------------------------------------------------------------------
(* EncryptionHelper *)

DoneCalls == {c \in DOMAIN cipher.calls : cipher.calls[c].pc = "done"}

DoneOf(op) == {c \in DoneCalls : cipher.calls[c].op = op}

\* C27: the key derivation of an EncryptionHelper is started by its first
\* encrypt or decrypt call and by no later one, whatever the interleaving:
\* it runs at most once, and every call that returned used the one key of
\* the helper's passphrase and mode
C27_DerivesOnce ==
    /\ cipher.derivations = IF cipher.calls = <<>> THEN 0 ELSE 1
    /\ \A c \in DOMAIN cipher.calls : cipher.calls[c].shared => c > 1
    /\ \A c \in DoneCalls :
          cipher.calls[c].key = Some(KeyOf(cipher.passphrase, cipher.passphraseMode))

\* an encrypt and a decrypt were both called before the derivation had
\* finished, and both have returned
C27_Witness ==
    /\ Len(cipher.calls) = 2
    /\ cipher.calls[2].shared
    /\ DoneCalls = {1, 2}
    /\ cipher.calls[1].op # cipher.calls[2].op
    /\ cipher.derivations = 1

\* the decrypt calls that were given what encrypt returns for a plaintext on
\* a helper of the same passphrase and mode
RoundTrips ==
    {c \in DoneOf("decrypt") :
        /\ cipher.calls[c].origin.how = "intact"
        /\ cipher.calls[c].origin.passphrase = cipher.passphrase
        /\ cipher.calls[c].origin.passphraseMode = cipher.passphraseMode}

\* C28: decrypt of what encrypt returned for s, on helpers of the same
\* passphrase and mode, returns s, for every string s and also when the
\* calls are interleaved
C28_CipherRoundTrip ==
    \A c \in RoundTrips :
        /\ ~cipher.calls[c].result[1].threw
        /\ cipher.calls[c].result[1].value = cipher.calls[c].origin.plain

\* a string that TextEncoder and TextDecoder give back: it does not start
\* with the byte order mark and has no surrogate without its pair
Survives(s) == (s = <<>> \/ Head(s) # "FEFF") /\ \A i \in DOMAIN s : s[i] # "D800"

\* the round trip of the strings that survive
RoundTripOfSurvivors ==
    \A c \in RoundTrips :
        Survives(cipher.calls[c].origin.plain) =>
            /\ ~cipher.calls[c].result[1].threw
            /\ cipher.calls[c].result[1].value = cipher.calls[c].origin.plain

\* the decrypt inputs of C29: no separator, empty, a segment that is not
\* hex, another passphrase, changed
Malformed(call) ==
    \/ IndexOf(call.data, "|") = 0
    \/ \E i \in DOMAIN call.data : call.data[i] = "g"
    \/ call.origin.how = "changed"
    \/ call.origin.how = "intact" /\ call.origin.passphrase # cipher.passphrase

\* C29: decrypt of a malformed input throws DecryptionError and returns no
\* plaintext
C29_MalformedRejected ==
    \A c \in DoneOf("decrypt") :
        Malformed(cipher.calls[c]) =>
            /\ cipher.calls[c].result[1].threw
            /\ cipher.calls[c].result[1].error = "DecryptionError"

\* decrypt throws nothing but DecryptionError, and throws it for every
\* malformed input whose chunks of two characters are other bytes than
\* those of a ciphertext of this helper
ThrowsOnlyDecryptionError ==
    \A c \in DoneOf("decrypt") :
        /\ cipher.calls[c].result[1].threw =>
              cipher.calls[c].result[1].error = "DecryptionError"
        /\ (/\ Malformed(cipher.calls[c])
            /\ cipher.calls[c].origin.how \notin {"appended", "hex digit moved"}) =>
              cipher.calls[c].result[1].threw

----------------------------------------------------------------------------
(* Identifiers *)

IsParse == lastRead # None /\ lastRead[1].op = "parseFullId"

\* C30: for a table name without the separator and any id, ids with the
\* separator included, parseFullId of the full identifier gives back the
\* table and the id, and no other pair with a table name without the
\* separator has the same full identifier, that is, the same record
C30_IdentifierRoundTrip ==
    (IsParse /\ NoSeparator(lastRead[1].table)) =>
        /\ lastRead[1].parsed = Some([table |-> lastRead[1].table, id |-> lastRead[1].id])
        /\ \A p \in lastRead[1].sharing :
              NoSeparator(p.table) => p.table = lastRead[1].table /\ p.id = lastRead[1].id

\* the identifier of an id with two separators in table t was taken apart,
\* and a pair of another table, whose name has the separator, has the same
\* record
C30_Witness ==
    /\ IsParse
    /\ lastRead[1].table = <<"t">>
    /\ lastRead[1].id = <<"_", "x", "_">>
    /\ lastRead[1].parsed # None
    /\ Cardinality(lastRead[1].sharing) = 2

----------------------------------------------------------------------------
(* getAll *)

IsGetAll == lastRead # None /\ lastRead[1].op = "getAll"

\* the rows getAll looks at: of no system record, and with a payload
Scanned(rows) == SelectSeq(rows, HasPayload)

\* the record of the row is of the table asked for
OfTable(row, table) ==
    table = None \/ parseFullId(row.id)[1].table = table[1]

----------------------------------------------------------------------------
(* get of a record that cannot be decrypted *)

IsGet == lastRead # None /\ lastRead[1].op = "get"

\* the rows of the record that get was asked for
RowsOfGet == SelectSeq(lastRead[1].rows,
                       LAMBDA row : row.id = FullId(lastRead[1].table[1], lastRead[1].id[1]))

\* the errors getAll collects over the rows
ErrorsOfScan(rows) == getAllRows([docs |-> <<>>, errors |-> <<>>], rows, 1, None).errors

\* C40: get of a record that exists and has a payload that cannot be
\* decrypted returns none, as for a record that does not exist, and invokes
\* no callback, where getAll over the same database has the record among
\* the errors it reports
C40_GetSilentOnFailure ==
    (IsGet /\ RowsOfGet # <<>> /\ HasPayload(RowsOfGet[1]) /\ ~Decryptable(RowsOfGet[1])) =>
        /\ ~lastRead[1].threw
        /\ lastRead[1].ret = None
        /\ NotesOf(lastRead[1].src) = <<>>
        /\ \E e \in DOMAIN ErrorsOfScan(lastRead[1].rows) :
              ErrorsOfScan(lastRead[1].rows)[e].docId = RowsOfGet[1].id

\* get was asked for a record encrypted under another passphrase, with an
\* onError registered
C40_Witness ==
    /\ IsGet
    /\ listener.onError
    /\ RowsOfGet # <<>>
    /\ KD \in DOMAIN RowsOfGet[1].doc
    /\ RowsOfGet[1].doc[KD].kind = "cipher"
    /\ RowsOfGet[1].doc[KD].key = OtherPassphrase
    /\ lastRead[1].ret = None

----------------------------------------------------------------------------
(* The place of onConflict among the notifications *)

\* the live change is an upsert of a record with competing revisions whose
\* winner decrypts
IsConflictedUpsert(change) ==
    /\ ~StartsWithDesign(change.id)
    /\ ~change.deleted
    /\ KD \in DOMAIN change.doc
    /\ HasConflicts(change.doc)
    /\ decryptDoc(change.doc, Passphrase) # None

\* C33: the onConflict of a conflicted live upsert whose winner decrypts is
\* the last notification of its event, delivered after the event's onChange
\* and after its onError, when it has one; it is delivered when onConflict
\* is registered and no callback of the event throws; and every notification
\* of a later event follows it
C33_ConflictAfterChange ==
    \A k \in DOMAIN chain :
        (Ran(k) /\ IsConflictedUpsert(chain[k].change)) =>
            LET ns == NotesOf(Live(k))
            IN  /\ \A i \in DOMAIN ns :
                      ns[i].cb = "onConflict" =>
                          /\ i = Len(ns)
                          /\ \E j \in 1..(i - 1) : ns[j].cb = "onChange"
                /\ (listener.onConflict /\ NoCallbackThrew(k)) =>
                      (ns # <<>> /\ ns[Len(ns)].cb = "onConflict")
                /\ \A p, q \in DOMAIN notes :
                      (/\ notes[p].src = Live(k)
                       /\ IsLive(notes[q])
                       /\ notes[q].src[2] > k) => p < q

\* the handler of a conflicted upsert delivered onError for a competing
\* revision, onChange and onConflict, and the handler of the next event has
\* delivered its notifications
C33_Witness ==
    \E k \in DOMAIN chain :
        /\ Ran(k) /\ IsConflictedUpsert(chain[k].change)
        /\ [i \in DOMAIN NotesOf(Live(k)) |-> NotesOf(Live(k))[i].cb]
              = <<"onError", "onChange", "onConflict">>
        /\ k + 1 \in DOMAIN chain
        /\ Ran(k + 1)
        /\ NotesOf(Live(k + 1)) # <<>>

----------------------------------------------------------------------------
(* Writes around the bulk load *)

\* nothing is left to do: loadAll has returned and every handler has run
Quiet == load.pc = "done" /\ \A k \in DOMAIN chain : Settled(k)

\* the last put went through, its revision is the winning one of its record,
\* and the rows that loadAll got from allDocs do not have it: it was written
\* after loadAll was invoked
WrittenAfterLoad ==
    /\ load.scanned
    /\ lastPut # None
    /\ lastPut[1].ok
    /\ ~IsDeleted(lastPut[1].doc)
    /\ NoSeparator(lastPut[1].table)
    /\ Winner(store[lastPut[1].sent[KId]])[KRev] = lastPut[1].ret[KRev]
    /\ \A i \in DOMAIN load.rows : load.rows[i].doc[KRev] # lastPut[1].ret[KRev]

\* a change notification has the document of the last put
LastPutReported ==
    \E i \in DOMAIN notes :
        /\ notes[i].cb = "onChange"
        /\ \E b \in DOMAIN notes[i].arg : \E j \in DOMAIN notes[i].arg[b].docs :
              /\ notes[i].arg[b].table = lastPut[1].table
              /\ notes[i].arg[b].docs[j][KId] = lastPut[1].doc[KId]
              /\ notes[i].arg[b].docs[j][KRev] = lastPut[1].ret[KRev]

\* C34: once loadAll has returned and the handlers have run, a record
\* written after loadAll was invoked has been reported, in the bulk change
\* notification or in a live one
C34_NoWriteLost == (Quiet /\ WrittenAfterLoad) => LastPutReported

----------------------------------------------------------------------------
(* One subscription *)

\* C35: across loadAll and reconnect calls at most one change subscription
\* is live, so every change of the store is appended to the promise chain
\* once
C35_OneSubscription ==
    /\ Cardinality(subs) <= 1
    /\ \A k \in DOMAIN chain : chain[k].of.subs = 1

----------------------------------------------------------------------------
(* reconnect and the promise chain *)

\* a step of reconnect
IsReconnect == used'.reconnect # used.reconnect

\* reconnect leaves the chain and its tail as they are, and the handle that
\* was held is no longer live
ReconnectKeepsTail ==
    /\ chain' = chain
    /\ processingChain' = processingChain
    /\ changesHandler # None => changesHandler[1] \notin subs'
    /\ changesHandler' # None /\ changesHandler'[1] \in subs'

\* an event delivered under a later subscription is handled only when every
\* event delivered before it has been handled to its end
LaterSubscriptionWaits ==
    \A j, k \in DOMAIN chain :
        (j < k /\ chain[j].of.handle # chain[k].of.handle /\ chain[k].st # "pending")
            => Settled(j)

\* C32: reconnect cancels the handle that is held and aborts nothing in the
\* promise chain: every event appended is handled to its end, and the events
\* of the new subscription are handled only after the ones appended before
C32_ReconnectAbortsNothing ==
    /\ [][IsReconnect => ReconnectKeepsTail]_vars
    /\ []LaterSubscriptionWaits
    /\ []<>(\A k \in DOMAIN chain : Settled(k))

\* after one loadAll: an event is being handled, reconnect has been called,
\* and an event of the new subscription waits behind it
C32_Witness ==
    /\ used.load = 1
    /\ used.reconnect = 1
    /\ \E j, k \in DOMAIN chain :
          /\ j < k
          /\ chain[j].of.handle # chain[k].of.handle
          /\ chain[j].st = "running"
          /\ chain[k].st = "pending"

----------------------------------------------------------------------------
(* After a resolution *)

\* the last call was a resolveConflict that resolved, and its winning
\* document was the winner or a loser of the record as it was, with the
\* revision it had there
ResolvedWithOneOfThem ==
    /\ IsResolve
    /\ lastPut[1].ok
    /\ KRev \in DOMAIN lastPut[1].doc
    /\ \E l \in lastPut[1].before :
          /\ ~IsDeleted(l)
          /\ decryptDoc(l, Passphrase) = Some(lastPut[1].doc)

\* the record has no competing revisions and get returns the user data of w
ResolvedTo(st, table, id, w) ==
    /\ getConflictInfo(st, table, id, ReadSrc("getConflictInfo")).ret = None
    /\ get(st, table, id, ReadSrc("get")).ret # None
    /\ UserData(get(st, table, id, ReadSrc("get")).ret[1]) = UserData(w)

\* C36: after resolveConflict(table, id, w) resolved, w being the winner or
\* one of the losers of the record, the record has no competing revisions
\* left and get returns the user data of w
C36_ResolvedForGood ==
    ResolvedWithOneOfThem =>
        ResolvedTo(store, lastPut[1].table, lastPut[1].id, lastPut[1].doc)

----------------------------------------------------------------------------
(* The wait of deleteAllAndSync and the events around it *)

\* the written count that the push events of the handle h reported among the
\* signals from..to
RECURSIVE PushesOf(_, _, _, _)
PushesOf(log, h, from, to) ==
    IF to < from THEN 0
    ELSE PushesOf(log, h, from, to - 1)
         + (IF log[to].h = h /\ log[to].ev = "change" /\ log[to].info.direction = "push"
            THEN log[to].info.docs_written ELSE 0)

\* what the handle that c was called with has pushed since bulkDocs of c
PushedSinceBulk(c) ==
    PushesOf(sync.log, SyncCall(c).held[1], SyncCall(c).bulkAt + 1, Len(sync.log))

TimedOut(c) == SyncCall(c).pc = "rejected" /\ SyncCall(c).error = Some(ErrTimeout)

\* C37: a deleteAllAndSync over N > 0 records whose handle has reported N
\* pushed records since the bulk delete does not time out, wherever between
\* the bulk delete and the listeners the push events fall
C37_PushedMeansResolved ==
    \A c \in DOMAIN sync.calls :
        (/\ SyncCall(c).op = "deleteAllAndSync"
         /\ SyncCall(c).bulk
         /\ Len(SyncCall(c).docsToDelete) > 0
         /\ PushedSinceBulk(c) >= Len(SyncCall(c).docsToDelete)) =>
            ~TimedOut(c)

----------------------------------------------------------------------------
(* The remote URL and the sync handle *)

\* if (!this.remoteUrl) of syncNow and if (!this.syncHandler) of
\* deleteAllAndSync: the call goes on
syncNowAccepts(sy) == ~(sy.remoteUrl = None \/ sy.remoteUrl = Some(""))

deleteAllAndSyncAccepts(sy) == sy.syncHandler # None

\* a step that is a call of syncNow
IsSyncNow ==
    /\ Len(sync'.calls) = Len(sync.calls) + 1
    /\ sync'.calls[Len(sync'.calls)].op = "syncNow"

----------------------------------------------------------------------------
(* The listeners of a deleteAllAndSync that has settled *)

\* C39: when a deleteAllAndSync has settled, by the count of pushed records,
\* by a sync error or by its timer, no handle has a listener of it left
C39_ListenersRemoved ==
    \A c \in DOMAIN sync.calls :
        (SyncCall(c).op = "deleteAllAndSync" /\ SyncCall(c).pc \in {"resolved", "rejected"})
            => ListenersOf(c) = {}

====
